---- MODULE Spec2Model ----
(***************************************************************************)
(* A model of the assertion library of src/assert.go and src/formatter.go. *)
(*                                                                         *)
(* A string is a sequence of tokens (each token a piece of text), so that  *)
(* concatenation, joining and containment are computed, not assumed.       *)
(* Everything an operation does to the outside (a write to a sink, a flush *)
(* hook, a call of the termination action, a line on the structured log)  *)
(* is an event; `trace` holds the events of the most recent operation, in  *)
(* the order the code performs them.                                       *)
(***************************************************************************)
EXTENDS Integers, Sequences, FiniteSets

VARIABLES
    handler,         \* the explicit handler made by NewAssertHandler()
    defaultHandler,  \* the package's defaultHandler (meaningful once initOnce)
    initOnce,        \* TRUE once initOnce.Do has run
    trace,           \* the events of the most recent operation
    last,            \* which operation ran most recently, and with what inputs
    pending,         \* reports rendered by deferred failures since the last drain
    exited,          \* TRUE once os.Exit has ended the process
    threads,         \* where each goroutine stands inside the call it is making
    second           \* a second handler made by NewAssertHandler(), once made

vars ==
    <<handler, defaultHandler, initOnce, trace, last, pending, exited, threads,
      second>>

(***************************************************************************)
(* Bounds of the model.                                                    *)
(***************************************************************************)
MaxQueue == 2      \* longest deferred queue explored
MaxFlushes == 1    \* most flush hooks registered on one handler
MaxSharedQueue == 1  \* longest deferred queue explored with goroutines
MaxHooks == 2      \* most flush hooks registered where their order is explored

(***************************************************************************)
(* Strings.                                                                *)
(***************************************************************************)
RECURSIVE Concat(_)
Concat(ss) == IF ss = <<>> THEN <<>> ELSE Head(ss) \o Concat(Tail(ss))

\* strings.Contains for a one-token needle
Has(s, tok) == \E i \in 1..Len(s) : s[i] = tok

\* s contains t as a contiguous run of tokens
HasRun(s, t) ==
    \E i \in 0..(Len(s) - Len(t)) : \A j \in 1..Len(t) : s[i + j] = t[j]

Sep == "\n---\n"

\* strings.Join(elems, sep)
RECURSIVE Join(_, _)
Join(elems, sep) ==
    IF elems = <<>> THEN <<>>
    ELSE IF Len(elems) = 1 THEN elems[1]
    ELSE elems[1] \o <<sep>> \o Join(Tail(elems), sep)

\* fmt.Fprintln(w, s): the operands, then a newline, in one Write
Println(s) == s \o <<"\n">>

(***************************************************************************)
(* Events.                                                                 *)
(***************************************************************************)
WriteEv(w, s) == [ev |-> "write", w |-> w, s |-> s, n |-> 0]
FlushEv(f)    == [ev |-> "flush", w |-> f, s |-> <<>>, n |-> 0]
ExitEv(f, c)  == [ev |-> "exit", w |-> f, s |-> <<>>, n |-> c]
SlogEv(m)     == [ev |-> "slog", w |-> "slog", s |-> <<m>>, n |-> 0]

(***************************************************************************)
(* Formatters (src/formatter.go).  `ord` is the order in which a Go map    *)
(* range visits the record's keys: any permutation, chosen by the caller.  *)
(***************************************************************************)
SortedKeys ==
    <<"actual", "area", "error", "expected", "expected_not", "k", "msg",
      "r", "string", "substring", "value">>

\* the keys of a record in the order encoding/json and yaml.v2 emit them
Sorted(keys) == SelectSeq(SortedKeys, LAMBDA k : k \in keys)

Reverse(q) == [i \in 1..Len(q) |-> q[Len(q) + 1 - i]]

\* Orders in which a map range may visit `keys`.  Go leaves the order
\* unspecified; two orders are explored, enough for no result to rest on one.
Orders(keys) == {Sorted(keys), Reverse(Sorted(keys))}

TextFormat(data, stack, ord) ==
    <<"ASSERT", "\n">>
    \o Concat([i \in 1..Len(ord) |->
                 <<"   ", ord[i], "=">> \o data[ord[i]] \o <<"\n">>])
    \o (IF stack # <<>> THEN stack \o <<"\n">> ELSE <<>>)

JSONFormat(data, stack) ==
    LET ks == Sorted(DOMAIN data)
        entry(i) == <<"    ", "\"", ks[i], "\"", ": ", "\"">> \o data[ks[i]]
                    \o <<"\"">>
                    \o (IF i < Len(ks) THEN <<",">> ELSE <<>>) \o <<"\n">>
    IN  <<"{", "\n", "  ", "\"", "assertData", "\"", ": ", "{", "\n">>
        \o Concat([i \in 1..Len(ks) |-> entry(i)])
        \o <<"  ", "}">>
        \o (IF stack # <<>>
            THEN <<",", "\n", "  ", "\"", "stack", "\"", ": ", "\"">> \o stack
                 \o <<"\"">>
            ELSE <<>>)
        \o <<"\n", "}">>

YAMLFormat(data, stack) ==
    LET ks == Sorted(DOMAIN data)
    IN  <<"assertData", ":", "\n">>
        \o Concat([i \in 1..Len(ks) |->
                     <<"  ", ks[i], ": ">> \o data[ks[i]] \o <<"\n">>])
        \o (IF stack # <<>> THEN <<"stack", ": ">> \o stack \o <<"\n">> ELSE <<>>)

Format(formatter, data, stack, ord) ==
    CASE formatter = "text" -> TextFormat(data, stack, ord)
      [] formatter = "json" -> JSONFormat(data, stack)
      [] formatter = "yaml" -> YAMLFormat(data, stack)

\* string(debug.Stack())
StackText == <<"goroutine 1 [running]:">>

(***************************************************************************)
(* The handler (src/assert.go).                                            *)
(***************************************************************************)
EmptyMap == [k \in {} |-> <<>>]

\* a variant whose termination action does nothing
NewAssertHandler_Safe ==
    [ flushes         |-> <<>>,
      assertData      |-> EmptyMap,
      writer          |-> "stderr",
      flushLock       |-> FALSE,
      exitFunc        |-> "noop",
      formatter       |-> "text",
      deferredErrors  |-> <<>>,
      deferAssertions |-> FALSE,
      debugMode       |-> FALSE,
      verboseMode     |-> FALSE ]

NewAssertHandler ==
    [ flushes         |-> <<>>,
      assertData      |-> EmptyMap,
      writer          |-> "stderr",
      flushLock       |-> FALSE,
      exitFunc        |-> "os.Exit",
      formatter       |-> "text",
      deferredErrors  |-> <<>>,
      deferAssertions |-> FALSE,
      debugMode       |-> FALSE,
      verboseMode     |-> FALSE ]

\* What one call did: the handler afterwards, the events in order, whether the
\* call ended by a panic reaching the caller, whether os.Exit ended the process.
Result(a, tr, raised, exit) ==
    [a |-> a, tr |-> tr, raised |-> raised, exited |-> exit]

NoEffect(a) == Result(a, <<>>, FALSE, FALSE)

\* a.exitFunc(code): os.Exit ends the process, the panic action raises
CallExit(a, code, tr) ==
    Result(a, Append(tr, ExitEv(a.exitFunc, code)),
           a.exitFunc = "panic", a.exitFunc = "os.Exit")

\* An argument list (args ...interface{}) is a sequence of values; a key and
\* its value are two consecutive elements.
Pair(k, v) == << <<k>>, v >>

\* args[i].(string) as a key of the record: keys are one-token strings
Key(v) == v[1]

\* A value that is not a string (the int 42) carries its type as first token.
NotAString == <<"(int)", "42">>

IsString(v) == v = <<>> \/ v[1] # "(int)"

\* The type assertion args[i].(string) has no ", ok": it panics on the first
\* key position of a complete pair that holds a value of another type.
ArgsPanic(args) ==
    \E i \in 1..Len(args) : i % 2 = 1 /\ i + 1 <= Len(args) /\ ~IsString(args[i])

\* a variant in which the first pair with a key keeps it
RECURSIVE PutArgs_FirstWins(_, _)
PutArgs_FirstWins(data, args) ==
    IF Len(args) < 2 THEN data
    ELSE PutArgs_FirstWins([k \in DOMAIN data \cup {Key(args[1])} |->
                               IF k \in DOMAIN data THEN data[k] ELSE args[2]],
                           SubSeq(args, 3, Len(args)))

\* the record a failing call hands to the formatter
RECURSIVE PutArgs(_, _)
PutArgs(data, args) ==
    IF Len(args) < 2 THEN data
    ELSE PutArgs([k \in DOMAIN data \cup {Key(args[1])} |->
                     IF k = Key(args[1]) THEN args[2] ELSE data[k]],
                 SubSeq(args, 3, Len(args)))

\* a variant that starts the record without its area
BuildData_NoArea(a, msg, args) ==
    LET called == PutArgs([k \in {"msg"} |-> msg], args)
    IN  [k \in DOMAIN called \cup DOMAIN a.assertData |->
            IF k \in DOMAIN a.assertData THEN a.assertData[k] ELSE called[k]]

\* a variant in which a pair of the caller is kept over a registry entry
BuildData_ArgsWin(a, msg, args) ==
    LET base   == [k \in {"msg", "area"} |->
                      IF k = "msg" THEN msg ELSE <<"Assert">>]
        merged == [k \in DOMAIN base \cup DOMAIN a.assertData |->
                      IF k \in DOMAIN a.assertData THEN a.assertData[k]
                      ELSE base[k]]
    IN  PutArgs(merged, args)

BuildData(a, msg, args) ==
    LET base   == [k \in {"msg", "area"} |->
                      IF k = "msg" THEN msg ELSE <<"Assert">>]
        called == PutArgs(base, args)
    IN  [k \in DOMAIN called \cup DOMAIN a.assertData |->
            IF k \in DOMAIN a.assertData THEN a.assertData[k] ELSE called[k]]

\* the keys of that record
DataKeys(a, args) == DOMAIN BuildData(a, <<>>, args)

\* fmt.Fprintf(a.writer, "ARGS: %+v\n", args): the elements, a space between
\* two of them
ArgsLine(args) ==
    <<"ARGS: ", "[">>
    \o Concat([i \in 1..Len(args) |->
                 (IF i > 1 THEN <<" ">> ELSE <<>>) \o args[i]])
    \o <<"]", "\n">>

CancelNotice(err) == Println(<<"Context canceled:", " ", err>>)

\* a.flushLock.Lock() and the deferred a.flushLock.Unlock()
Lock(a)   == [a EXCEPT !.flushLock = TRUE]
Unlock(a) == [a EXCEPT !.flushLock = FALSE]

\* The deferred Unlock runs when the function returns or panics; os.Exit ends
\* the process without running deferred calls.
\* a variant whose Unlock is a plain last statement, skipped by a panic
Deferred_SkippedByPanic(r) ==
    IF r.exited \/ r.raised THEN r ELSE [r EXCEPT !.a = Unlock(r.a)]

Deferred(r) == IF r.exited THEN r ELSE [r EXCEPT !.a = Unlock(r.a)]

\* a variant that returns on a cancelled context without a word
Cancelled_Silent(a, ctxErr) == Result(a, <<>>, FALSE, FALSE)

\* the early return of a cancelled context
Cancelled(a, ctxErr) ==
    Result(a, <<WriteEv(a.writer, CancelNotice(ctxErr))>>, FALSE, FALSE)

\* a variant that calls the hooks last registered first
RunFlushes_Reversed(a) ==
    [i \in 1..Len(a.flushes) |-> FlushEv(a.flushes[Len(a.flushes) + 1 - i])]

\* for _, f := range a.flushes { f.Flush() }
RunFlushes(a) == [i \in 1..Len(a.flushes) |-> FlushEv(a.flushes[i])]

\* a variant that captures the stack in debug mode only
Render_DebugOnly(a, msg, args, ord) ==
    Format(a.formatter, BuildData(a, msg, args),
           IF a.debugMode THEN StackText ELSE <<>>, ord)

\* a.formatter.Format(data, stack), the stack captured in debug or verbose mode
Render(a, msg, args, ord) ==
    Format(a.formatter, BuildData(a, msg, args),
           IF a.debugMode \/ a.verboseMode THEN StackText ELSE <<>>, ord)

\* a variant that keeps a deferred report back until the drain
WriteReport_HoldDeferred(a, args, formattedOutput) ==
    IF a.deferAssertions THEN <<>>
    ELSE (IF a.verboseMode THEN <<WriteEv(a.writer, ArgsLine(args))>> ELSE <<>>)
         \o <<WriteEv(a.writer, Println(<<"ASSERT">>)),
              WriteEv(a.writer, Println(formattedOutput))>>

\* the writes of a report: the ARGS line in verbose mode, ASSERT, the report
WriteReport(a, args, formattedOutput) ==
    (IF a.verboseMode THEN <<WriteEv(a.writer, ArgsLine(args))>> ELSE <<>>)
    \o <<WriteEv(a.writer, Println(<<"ASSERT">>)),
         WriteEv(a.writer, Println(formattedOutput))>>

\* a variant that, in deferred mode, puts the new entry at the front
Settle_Prepend(a, formattedOutput, tr) ==
    IF a.deferAssertions
    THEN Result([a EXCEPT !.deferredErrors = <<formattedOutput>> \o @],
                tr, FALSE, FALSE)
    ELSE CallExit(a, 1, tr)

\* a variant that calls the termination action before anything is written
Settle_ExitFirst(a, formattedOutput, tr) ==
    IF a.deferAssertions
    THEN Result([a EXCEPT !.deferredErrors = Append(@, formattedOutput)],
                tr, FALSE, FALSE)
    ELSE Result(a, <<ExitEv(a.exitFunc, 1)>> \o tr,
                a.exitFunc = "panic", a.exitFunc = "os.Exit")

\* after the writes `tr`: store the report in deferred mode, else a.exitFunc(1)
Settle(a, formattedOutput, tr) ==
    IF a.deferAssertions
    THEN Result([a EXCEPT !.deferredErrors = Append(@, formattedOutput)],
                tr, FALSE, FALSE)
    ELSE CallExit(a, 1, tr)

\* a variant that reads the context only after the flush hooks have run
Pipeline_LateCheck(a, ctxErr, msg, args, ord) ==
    IF ctxErr # ""
    THEN Result(a, RunFlushes(a) \o <<WriteEv(a.writer, CancelNotice(ctxErr))>>,
                FALSE, FALSE)
    ELSE Settle(a, Render(a, msg, args, ord),
                RunFlushes(a) \o WriteReport(a, args, Render(a, msg, args, ord)))

\* the body of runAssert, entered with the lock held
Pipeline(a, ctxErr, msg, args, ord) ==
    IF ctxErr # ""
    THEN Cancelled(a, ctxErr)
    ELSE IF ArgsPanic(args)
    THEN Result(a, RunFlushes(a), TRUE, FALSE)
    ELSE Settle(a, Render(a, msg, args, ord),
                RunFlushes(a) \o WriteReport(a, args, Render(a, msg, args, ord)))

runAssert(a, ctxErr, msg, args, ord) ==
    Deferred(Pipeline(Lock(a), ctxErr, msg, args, ord))

\* a variant that forgets to clear the queue
ProcessDeferred_KeepQueue(a) ==
    IF Len(a.deferredErrors) > 0
    THEN CallExit(a, 1,
                  <<WriteEv(a.writer, Println(Join(a.deferredErrors, Sep)))>>)
    ELSE NoEffect(a)

\* a variant without the emptiness check
ProcessDeferred_Always(a) ==
    CallExit([a EXCEPT !.deferredErrors = <<>>], 1,
             <<WriteEv(a.writer, Println(Join(a.deferredErrors, Sep)))>>)

\* a variant that clears the queue after the termination action has returned
ProcessDeferred_ClearAfterExit(a) ==
    LET r == CallExit(a, 1,
                      <<WriteEv(a.writer, Println(Join(a.deferredErrors, Sep)))>>)
    IN  IF Len(a.deferredErrors) = 0 THEN NoEffect(a)
        ELSE IF r.raised \/ r.exited THEN r
        ELSE [r EXCEPT !.a = [a EXCEPT !.deferredErrors = <<>>]]

ProcessDeferred(a) ==
    IF Len(a.deferredErrors) > 0
    THEN CallExit([a EXCEPT !.deferredErrors = <<>>], 1,
                  <<WriteEv(a.writer, Println(Join(a.deferredErrors, Sep)))>>)
    ELSE NoEffect(a)

\* a variant that runs the flush hooks of a satisfied check too
HAssert_FlushFirst(a, ctxErr, truth, msg, args, ord) ==
    IF ~truth THEN runAssert(a, ctxErr, msg, args, ord)
    ELSE Result(a, RunFlushes(a), FALSE, FALSE)

HAssert(a, ctxErr, truth, msg, args, ord) ==
    IF ~truth THEN runAssert(a, ctxErr, msg, args, ord) ELSE NoEffect(a)

\* the error of context.WithTimeout(ctx, timeout) when runAssert reads it,
\* `elapsed` after the deadline was set
\* a variant whose derived context never expires
TimeoutErr_NeverExpires(ctxErr, timeout, elapsed) == ctxErr

TimeoutErr(ctxErr, timeout, elapsed) ==
    IF ctxErr # "" THEN ctxErr
    ELSE IF timeout <= elapsed THEN "context deadline exceeded"
    ELSE ""

HAssertWithTimeout(a, ctxErr, timeout, elapsed, truth, msg, args, ord) ==
    IF ~truth
    THEN runAssert(a, TimeoutErr(ctxErr, timeout, elapsed), msg, args, ord)
    ELSE NoEffect(a)

\* a result with an event put in front of its events
After(e, r) == [r EXCEPT !.tr = <<e>> \o @]

NilItem == "nil"

\* a variant that runs the pipeline whatever the item is
HNil_Always(a, ctxErr, item, msg, args, ord) ==
    IF item = NilItem
    THEN runAssert(a, ctxErr, msg, args, ord)
    ELSE After(SlogEv("Nil#not nil encountered"),
               runAssert(a, ctxErr, msg, args, ord))

HNil(a, ctxErr, item, msg, args, ord) ==
    IF item # NilItem
    THEN After(SlogEv("Nil#not nil encountered"),
               runAssert(a, ctxErr, msg, args, ord))
    ELSE NoEffect(a)

HNotNil(a, ctxErr, item, msg, args, ord) ==
    IF item = NilItem
    THEN After(SlogEv("NotNil#nil encountered"),
               runAssert(a, ctxErr, msg, args, ord))
    ELSE NoEffect(a)

HNever(a, ctxErr, msg, args, ord) == runAssert(a, ctxErr, msg, args, ord)

NilErr == <<>>

HNoError(a, ctxErr, err, msg, args, ord) ==
    IF err # NilErr
    THEN runAssert(a, ctxErr, msg, args \o Pair("error", err), ord)
    ELSE NoEffect(a)

(***************************************************************************)
(* Options and the package-level functions (src/assert.go).                *)
(***************************************************************************)
Opt(name, arg) == [name |-> name, arg |-> arg]

\* a variant whose presets start from a fresh configuration instead of the
\* one they are handed
ApplyOption_PresetsFromScratch(c, o) ==
    CASE o.name = "WithFormatter"  -> [c EXCEPT !.formatter = o.arg]
      [] o.name = "WithWriter"     -> [c EXCEPT !.writer = o.arg]
      [] o.name = "WithExitFunc"   -> [c EXCEPT !.exitFunc = o.arg]
      [] o.name = "WithDeferMode"  -> [c EXCEPT !.deferMode = (o.arg = "true")]
      [] o.name = "WithDebugMode"  -> [c EXCEPT !.debugMode = TRUE]
      [] o.name = "WithVerboseMode" -> [c EXCEPT !.verboseMode = TRUE]
      [] o.name = "WithQuietMode"  ->
            [c EXCEPT !.debugMode = FALSE, !.verboseMode = FALSE]
      [] o.name = "WithCrashOnFailure" -> [c EXCEPT !.exitFunc = "os.Exit"]
      [] o.name = "WithPanicOnFailure" -> [c EXCEPT !.exitFunc = "panic"]
      [] o.name = "WithSilentMode" -> [c EXCEPT !.writer = "discard"]
      [] o.name = "WithLogLevel"   -> c
      [] o.name = "WithTestingDefaults" ->
            [ formatter |-> "text", writer |-> "stderr", exitFunc |-> "noop",
              deferMode |-> FALSE, debugMode |-> TRUE, verboseMode |-> FALSE ]
      [] o.name = "WithProductionDefaults" ->
            [ formatter |-> "json", writer |-> "stderr", exitFunc |-> "noop",
              deferMode |-> FALSE, debugMode |-> FALSE, verboseMode |-> FALSE ]

\* one Option applied to an AssertConfig
ApplyOption(c, o) ==
    CASE o.name = "WithFormatter"  -> [c EXCEPT !.formatter = o.arg]
      [] o.name = "WithWriter"     -> [c EXCEPT !.writer = o.arg]
      [] o.name = "WithExitFunc"   -> [c EXCEPT !.exitFunc = o.arg]
      [] o.name = "WithDeferMode"  -> [c EXCEPT !.deferMode = (o.arg = "true")]
      [] o.name = "WithDebugMode"  -> [c EXCEPT !.debugMode = TRUE]
      [] o.name = "WithVerboseMode" -> [c EXCEPT !.verboseMode = TRUE]
      [] o.name = "WithQuietMode"  ->
            [c EXCEPT !.debugMode = FALSE, !.verboseMode = FALSE]
      [] o.name = "WithCrashOnFailure" -> [c EXCEPT !.exitFunc = "os.Exit"]
      [] o.name = "WithPanicOnFailure" -> [c EXCEPT !.exitFunc = "panic"]
      [] o.name = "WithSilentMode" -> [c EXCEPT !.writer = "discard"]
      [] o.name = "WithLogLevel"   -> c
      [] o.name = "WithTestingDefaults" ->
            [c EXCEPT !.exitFunc = "noop", !.formatter = "text",
                      !.debugMode = TRUE]
      [] o.name = "WithProductionDefaults" ->
            [c EXCEPT !.exitFunc = "noop", !.formatter = "json",
                      !.debugMode = FALSE, !.verboseMode = FALSE]

\* a variant that applies the options from the last to the first
RECURSIVE FoldOptions_Reversed(_, _)
FoldOptions_Reversed(c, opts) ==
    IF opts = <<>> THEN c
    ELSE ApplyOption(FoldOptions_Reversed(c, Tail(opts)), Head(opts))

\* for _, opt := range opts { opt(config) }
RECURSIVE FoldOptions(_, _)
FoldOptions(c, opts) ==
    IF opts = <<>> THEN c
    ELSE FoldOptions(ApplyOption(c, Head(opts)), Tail(opts))

\* a variant whose default handler is in deferred mode
InitDefault_Deferring ==
    [NewAssertHandler EXCEPT !.exitFunc = "noop", !.writer = "stderr",
                             !.deferAssertions = TRUE]

\* a variant that leaves the constructor's termination action in place
InitDefault_Unsafe == [NewAssertHandler EXCEPT !.writer = "stderr"]

\* what initOnce.Do leaves in defaultHandler
InitDefault ==
    [NewAssertHandler EXCEPT !.exitFunc = "noop", !.writer = "stderr"]

\* getDefaultHandler(): the handler, given the package state (d, once)
getDefaultHandler(d, once) == IF once THEN d ELSE InitDefault

\* applyOptions(opts...): the handler the call runs on
applyOptions(d, once, opts) ==
    LET h == getDefaultHandler(d, once)
        config == FoldOptions(
                    [ formatter   |-> h.formatter,
                      writer      |-> h.writer,
                      exitFunc    |-> h.exitFunc,
                      deferMode   |-> h.deferAssertions,
                      debugMode   |-> h.debugMode,
                      verboseMode |-> h.verboseMode ], opts)
    IN  IF Len(opts) = 0 THEN h
        ELSE [ flushes         |-> h.flushes,
               assertData      |-> h.assertData,
               writer          |-> config.writer,
               flushLock       |-> FALSE,
               exitFunc        |-> config.exitFunc,
               formatter       |-> config.formatter,
               deferredErrors  |-> <<>>,
               deferAssertions |-> config.deferMode,
               debugMode       |-> config.debugMode,
               verboseMode     |-> config.verboseMode ]

\* What a package-level call did: as Result, with `d` the default handler
\* afterwards and `once` whether initOnce has run.  A call made with options
\* runs on a temporary handler, which is dropped when the call returns.
\* a variant in which the handler the call ran on becomes the default handler
PkgResult_WriteBack(d, once, opts, r) ==
    [ d      |-> r.a,
      once   |-> TRUE,
      tr     |-> r.tr,
      raised |-> r.raised,
      exited |-> r.exited ]

PkgResult(d, once, opts, r) ==
    [ d      |-> IF Len(opts) = 0 THEN r.a ELSE getDefaultHandler(d, once),
      once   |-> TRUE,
      tr     |-> r.tr,
      raised |-> r.raised,
      exited |-> r.exited ]

\* a package-level call that returns before applyOptions is reached
PkgPass(d, once) ==
    [d |-> d, once |-> once, tr |-> <<>>, raised |-> FALSE, exited |-> FALSE]

\* fmt's %v of a bool
BoolStr(b) == IF b THEN <<"true">> ELSE <<"false">>

PAssert(d, once, ctxErr, truth, msg, opts, ord) ==
    PkgResult(d, once, opts,
        HAssert(applyOptions(d, once, opts), ctxErr, truth, msg, <<>>, ord))

PAssertWithTimeout(d, once, ctxErr, timeout, elapsed, truth, msg, opts, ord) ==
    PkgResult(d, once, opts,
        HAssertWithTimeout(applyOptions(d, once, opts), ctxErr, timeout, elapsed,
                           truth, msg, <<>>, ord))

PNil(d, once, ctxErr, item, msg, opts, ord) ==
    PkgResult(d, once, opts,
        HNil(applyOptions(d, once, opts), ctxErr, item, msg, <<>>, ord))

PNotNil(d, once, ctxErr, item, msg, opts, ord) ==
    PkgResult(d, once, opts,
        HNotNil(applyOptions(d, once, opts), ctxErr, item, msg, <<>>, ord))

PNever(d, once, ctxErr, msg, opts, ord) ==
    PkgResult(d, once, opts,
        HNever(applyOptions(d, once, opts), ctxErr, msg, <<>>, ord))

PNoError(d, once, ctxErr, err, msg, opts, ord) ==
    PkgResult(d, once, opts,
        HNoError(applyOptions(d, once, opts), ctxErr, err, msg, <<>>, ord))

PNotEmpty(d, once, ctxErr, str, msg, opts, ord) ==
    IF str = <<>>
    THEN PkgResult(d, once, opts,
            HAssert(applyOptions(d, once, opts), ctxErr, FALSE, msg,
                    Pair("value", str), ord))
    ELSE PkgPass(d, once)

PEqual(d, once, ctxErr, expected, actual, msg, opts, ord) ==
    IF expected = actual THEN PkgPass(d, once)
    ELSE PkgResult(d, once, opts,
            HAssert(applyOptions(d, once, opts), ctxErr, FALSE, msg,
                    Pair("expected", expected) \o Pair("actual", actual), ord))

PNotEqual(d, once, ctxErr, expected, actual, msg, opts, ord) ==
    IF expected # actual THEN PkgPass(d, once)
    ELSE PkgResult(d, once, opts,
            HAssert(applyOptions(d, once, opts), ctxErr, FALSE, msg,
                    Pair("expected_not", expected) \o Pair("actual", actual), ord))

PContains(d, once, ctxErr, str, substr, msg, opts, ord) ==
    IF HasRun(str, substr) THEN PkgPass(d, once)
    ELSE PkgResult(d, once, opts,
            HAssert(applyOptions(d, once, opts), ctxErr, FALSE, msg,
                    Pair("string", str) \o Pair("substring", substr), ord))

\* a variant that fails when the substring is absent
PNotContains_Inverted(d, once, ctxErr, str, substr, msg, opts, ord) ==
    IF HasRun(str, substr) THEN PkgPass(d, once)
    ELSE PkgResult(d, once, opts,
            HAssert(applyOptions(d, once, opts), ctxErr, FALSE, msg,
                    Pair("string", str) \o Pair("substring", substr), ord))

PNotContains(d, once, ctxErr, str, substr, msg, opts, ord) ==
    IF ~HasRun(str, substr) THEN PkgPass(d, once)
    ELSE PkgResult(d, once, opts,
            HAssert(applyOptions(d, once, opts), ctxErr, FALSE, msg,
                    Pair("string", str) \o Pair("substring", substr), ord))

PTrue(d, once, ctxErr, value, msg, opts, ord) ==
    IF value THEN PkgPass(d, once)
    ELSE PkgResult(d, once, opts,
            HAssert(applyOptions(d, once, opts), ctxErr, FALSE, msg,
                    Pair("value", BoolStr(value)), ord))

PFalse(d, once, ctxErr, value, msg, opts, ord) ==
    IF ~value THEN PkgPass(d, once)
    ELSE PkgResult(d, once, opts,
            HAssert(applyOptions(d, once, opts), ctxErr, FALSE, msg,
                    Pair("value", BoolStr(value)), ord))

PProcessDeferred(d, once, opts) ==
    PkgResult(d, once, opts, ProcessDeferred(applyOptions(d, once, opts)))

(***************************************************************************)
(* The inputs explored.                                                    *)
(***************************************************************************)
Msgs == {<<"A">>, <<"B">>}
CtxErrs == {"", "context canceled"}
\* data lists: none, a key with its value, a key whose value is missing
ArgLists == {<<>>, Pair("k", <<"v">>), << <<"k">> >>}
Items == {NilItem, "item"}
Errs == {NilErr, <<"boom">>}
\* <<timeout, time elapsed when runAssert reads the context>>
Timing == {<<1, 0>>, <<1, 1>>, <<0, 0>>}
Writers == {"buffer"}
ExitFuncs == {"noop", "panic"}
Formatters == {"text", "json", "yaml"}
Hooks == {"f1"}
Values == {<<"42">>, <<"24">>}
Strs == {<<>>, <<"x">>}
OptLists ==
    { <<>>,
      <<Opt("WithDeferMode", "true")>>,
      <<Opt("WithCrashOnFailure", "")>>,
      <<Opt("WithPanicOnFailure", "")>>,
      <<Opt("WithSilentMode", "")>>,
      <<Opt("WithProductionDefaults", "")>>,
      <<Opt("WithDebugMode", ""), Opt("WithQuietMode", "")>>,
      <<Opt("WithQuietMode", ""), Opt("WithDebugMode", "")>> }

\* the orders in which the formatter of `a` may range over the record's keys
RangeOrders(a, args) ==
    IF a.formatter = "text" THEN Orders(DataKeys(a, args))
    ELSE {Sorted(DataKeys(a, args))}

\* one order only, where the order is not what is explored
KeyOrder(a, args) == {Sorted(DataKeys(a, args))}

(***************************************************************************)
(* The state machine.  Each action is one whole call made by the program.  *)
(***************************************************************************)
NilHandler == [nil |-> TRUE]

\* the record of a call: the operation, whether it was the package-level one
\* (and with how many options), whether its check was satisfied, the error of
\* the context the pipeline would read, the message, whether it raised
\* the operands of a call: up to two values compared and the data list
Ins(x, y, args) == [x |-> x, y |-> y, args |-> args]
NoIns == Ins(<<>>, <<>>, <<>>)

\* `ins` are the operands, `opts` the options given, `by` the goroutine that
\* made the call where goroutines are told apart (the handler it was made on
\* where two handlers are)
Called(op, pkg, nopts, ok, ctxErr, msg, raised) ==
    [op |-> op, pkg |-> pkg, nopts |-> nopts, ok |-> ok, ctxErr |-> ctxErr,
     msg |-> msg, raised |-> raised, ins |-> NoIns, opts |-> <<>>, by |-> ""]

\* The goroutines that may call into one handler at the same time, and what
\* each keeps on its stack inside runAssert or ProcessDeferredAssertions: the
\* statement it stands at, the message and context error of its call, the
\* events it has still to perform, the text it has rendered or joined.
Threads == {"g1", "g2"}

Frame(pc, msg, ctxErr, todo, out) ==
    [pc |-> pc, msg |-> msg, ctxErr |-> ctxErr, todo |-> todo, out |-> out]

Idle == Frame("idle", <<>>, "", <<>>, <<>>)

Init ==
    /\ threads = [t \in Threads |-> Idle]
    /\ handler = NewAssertHandler
    /\ defaultHandler = NilHandler
    /\ initOnce = FALSE
    /\ trace = <<>>
    /\ last = Called("NewAssertHandler", FALSE, 0, TRUE, "", <<>>, FALSE)
    /\ pending = <<>>
    /\ exited = FALSE
    /\ second = NilHandler

\* a setter of the explicit handler
Mutate(a) ==
    /\ ~exited
    /\ handler' = a
    /\ trace' = <<>>
    /\ last' = Called("set", FALSE, 0, TRUE, "", <<>>, FALSE)
    /\ UNCHANGED <<defaultHandler, initOnce, pending, exited, threads, second>>

\* a variant that drops the queued entries when defer mode is switched off
SetDeferAssertions_Clearing(deferMode) ==
    Mutate([handler EXCEPT !.deferAssertions = deferMode,
                           !.deferredErrors = IF deferMode THEN @ ELSE <<>>])

SetDeferAssertions(deferMode) ==
    Mutate([handler EXCEPT !.deferAssertions = deferMode])

SetFormatter(formatter) == Mutate([handler EXCEPT !.formatter = formatter])

SetExitFunc(exitFunc) == Mutate([handler EXCEPT !.exitFunc = exitFunc])

ToWriter(w) == Mutate([handler EXCEPT !.writer = w])

SetDebugMode(debugMode) == Mutate([handler EXCEPT !.debugMode = debugMode])

SetVerboseMode(verboseMode) ==
    Mutate([handler EXCEPT !.verboseMode = verboseMode])

\* a.assertData[key] = value.  A registered entry is modelled by the string
\* its Dump() returns when called now.
AddAssertData(key, value) ==
    Mutate([handler EXCEPT !.assertData =
                [k \in DOMAIN @ \cup {key} |-> IF k = key THEN value ELSE @[k]]])

\* delete(a.assertData, key)
RemoveAssertData(key) ==
    Mutate([handler EXCEPT !.assertData = [k \in DOMAIN @ \ {key} |-> @[k]]])

\* the object behind a registered entry changes: its next Dump() returns
\* `value`, with no call on the handler
DumpChanges(key, value) ==
    /\ key \in DOMAIN handler.assertData
    /\ handler.assertData[key] # value
    /\ AddAssertData(key, value)

AddAssertFlush(flusher) ==
    Mutate([handler EXCEPT !.flushes = Append(@, flusher)])

\* a call on the explicit handler; `ok` is whether its check was satisfied and
\* ctxErr the error of the context the pipeline would read
HandlerCall(op, ins, ok, ctxErr, msg, r) ==
    /\ ~exited
    /\ ok \/ ~handler.flushLock
    /\ Len(r.a.deferredErrors) <= MaxQueue
    /\ handler' = r.a
    /\ trace' = r.tr
    /\ exited' = r.exited
    /\ last' = [Called(op, FALSE, 0, ok, ctxErr, msg, r.raised)
                    EXCEPT !.ins = ins]
    /\ pending' = IF ~ok /\ ctxErr = "" /\ handler.deferAssertions /\ ~r.raised
                  THEN Append(pending, msg) ELSE pending
    /\ UNCHANGED <<defaultHandler, initOnce, threads, second>>

DoAssert(ctxErr, truth, msg, args, ord) ==
        HandlerCall("Assert", Ins(<<>>, <<>>, args), truth, ctxErr, msg,
                    HAssert(handler, ctxErr, truth, msg, args, ord))

DoAssertWithTimeout(ctxErr, timeout, elapsed, truth, msg, args, ord) ==
        HandlerCall("AssertWithTimeout", Ins(timeout, elapsed, args), truth,
                    TimeoutErr(ctxErr, timeout, elapsed), msg,
                    HAssertWithTimeout(handler, ctxErr, timeout, elapsed, truth,
                                       msg, args, ord))

DoNil(ctxErr, item, msg, args, ord) ==
        HandlerCall("Nil", Ins(item, <<>>, args), item = NilItem, ctxErr, msg,
                    HNil(handler, ctxErr, item, msg, args, ord))

DoNotNil(ctxErr, item, msg, args, ord) ==
        HandlerCall("NotNil", Ins(item, <<>>, args), item # NilItem, ctxErr, msg,
                    HNotNil(handler, ctxErr, item, msg, args, ord))

DoNever(ctxErr, msg, args, ord) ==
        HandlerCall("Never", Ins(<<>>, <<>>, args), FALSE, ctxErr, msg,
                    HNever(handler, ctxErr, msg, args, ord))

DoNoError(ctxErr, err, msg, args, ord) ==
        HandlerCall("NoError", Ins(err, <<>>, args), err = NilErr, ctxErr, msg,
                    HNoError(handler, ctxErr, err, msg, args, ord))

ProcessDeferredAssertions ==
    LET r == ProcessDeferred(handler)
    IN  /\ ~exited
        /\ handler' = r.a
        /\ trace' = r.tr
        /\ exited' = r.exited
        /\ last' = Called("ProcessDeferredAssertions", FALSE, 0, TRUE, "",
                          <<>>, r.raised)
        /\ pending' = <<>>
        /\ UNCHANGED <<defaultHandler, initOnce, threads, second>>

\* a package-level call
PackageCall(op, opts, ins, ok, ctxErr, msg, r) ==
    /\ ~exited
    /\ defaultHandler' = r.d
    /\ initOnce' = r.once
    /\ trace' = r.tr
    /\ exited' = r.exited
    /\ last' = [Called(op, TRUE, Len(opts), ok, ctxErr, msg, r.raised)
                    EXCEPT !.ins = ins, !.opts = opts]
    /\ UNCHANGED <<handler, pending, threads, second>>

\* the handler a package-level call made now with `opts` would run on
Resolved(opts) == applyOptions(defaultHandler, initOnce, opts)

PkgAssert(ctxErr, truth, msg, opts, ord) ==
        PackageCall("Assert", opts, NoIns, truth, ctxErr, msg,
            PAssert(defaultHandler, initOnce, ctxErr, truth, msg, opts, ord))

PkgAssertWithTimeout(ctxErr, timeout, elapsed, truth, msg, opts, ord) ==
        PackageCall("AssertWithTimeout", opts, NoIns, truth,
            TimeoutErr(ctxErr, timeout, elapsed), msg,
            PAssertWithTimeout(defaultHandler, initOnce, ctxErr, timeout, elapsed,
                               truth, msg, opts, ord))

PkgNil(ctxErr, item, msg, opts, ord) ==
        PackageCall("Nil", opts, Ins(item, <<>>, <<>>), item = NilItem, ctxErr, msg,
            PNil(defaultHandler, initOnce, ctxErr, item, msg, opts, ord))

PkgNotNil(ctxErr, item, msg, opts, ord) ==
        PackageCall("NotNil", opts, Ins(item, <<>>, <<>>), item # NilItem, ctxErr, msg,
            PNotNil(defaultHandler, initOnce, ctxErr, item, msg, opts, ord))

PkgNever(ctxErr, msg, opts, ord) ==
        PackageCall("Never", opts, NoIns, FALSE, ctxErr, msg,
            PNever(defaultHandler, initOnce, ctxErr, msg, opts, ord))

PkgNoError(ctxErr, err, msg, opts, ord) ==
        PackageCall("NoError", opts, Ins(err, <<>>, <<>>), err = NilErr, ctxErr, msg,
            PNoError(defaultHandler, initOnce, ctxErr, err, msg, opts, ord))

PkgNotEmpty(ctxErr, str, msg, opts, ord) ==
        PackageCall("NotEmpty", opts, Ins(str, <<>>, <<>>), str # <<>>, ctxErr, msg,
            PNotEmpty(defaultHandler, initOnce, ctxErr, str, msg, opts, ord))

PkgEqual(ctxErr, expected, actual, msg, opts, ord) ==
        PackageCall("Equal", opts, Ins(expected, actual, <<>>), expected = actual, ctxErr, msg,
            PEqual(defaultHandler, initOnce, ctxErr, expected, actual, msg, opts,
                   ord))

PkgNotEqual(ctxErr, expected, actual, msg, opts, ord) ==
        PackageCall("NotEqual", opts, Ins(expected, actual, <<>>), expected # actual, ctxErr, msg,
            PNotEqual(defaultHandler, initOnce, ctxErr, expected, actual, msg,
                      opts, ord))

PkgContains(ctxErr, str, substr, msg, opts, ord) ==
        PackageCall("Contains", opts, Ins(str, substr, <<>>), HasRun(str, substr), ctxErr, msg,
            PContains(defaultHandler, initOnce, ctxErr, str, substr, msg, opts,
                      ord))

PkgNotContains(ctxErr, str, substr, msg, opts, ord) ==
        PackageCall("NotContains", opts, Ins(str, substr, <<>>), ~HasRun(str, substr), ctxErr, msg,
            PNotContains(defaultHandler, initOnce, ctxErr, str, substr, msg, opts,
                         ord))

PkgTrue(ctxErr, value, msg, opts, ord) ==
        PackageCall("True", opts, Ins(value, <<>>, <<>>), value, ctxErr, msg,
            PTrue(defaultHandler, initOnce, ctxErr, value, msg, opts, ord))

PkgFalse(ctxErr, value, msg, opts, ord) ==
        PackageCall("False", opts, Ins(value, <<>>, <<>>), ~value, ctxErr, msg,
            PFalse(defaultHandler, initOnce, ctxErr, value, msg, opts, ord))

PkgProcessDeferredAssertions(opts) ==
    PackageCall("ProcessDeferredAssertions", opts, NoIns, TRUE, "", <<>>,
        PProcessDeferred(defaultHandler, initOnce, opts))

(***************************************************************************)
(* Specifications.  Spec explores the control flow of one explicit handler *)
(* (pass or fail, cancellation, deferral, draining, termination) with the  *)
(* rendering configuration left as constructed; SpecConfig explores the    *)
(* rendering configuration of a handler in immediate mode; SpecPkg         *)
(* explores the package-level functions and their options.                 *)
(***************************************************************************)
\* the key orders a call may see: every order the range can take, or the one
\* order fixed for the exploration of control flow
OrdersFor(ranged, a, args) ==
    IF ranged THEN RangeOrders(a, args) ELSE KeyOrder(a, args)

\* the data lists a call is made with: every one of ArgLists, or none where
\* the data is not what is explored
ArgsFor(ranged) == IF ranged THEN ArgLists ELSE {<<>>}

\* the evaluations of the explicit handler
Evaluations(ranged) ==
    \/ \E c \in CtxErrs, t \in BOOLEAN, m \in Msgs, as \in ArgsFor(ranged) :
          \E o \in OrdersFor(ranged, handler, as) : DoAssert(c, t, m, as, o)
    \/ \E c \in CtxErrs, d \in Timing, t \in BOOLEAN, m \in Msgs, as \in ArgsFor(ranged) :
          \E o \in OrdersFor(ranged, handler, as) :
              DoAssertWithTimeout(c, d[1], d[2], t, m, as, o)
    \/ \E c \in CtxErrs, i \in Items, m \in Msgs, as \in ArgsFor(ranged) :
          \E o \in OrdersFor(ranged, handler, as) : DoNil(c, i, m, as, o)
    \/ \E c \in CtxErrs, i \in Items, m \in Msgs, as \in ArgsFor(ranged) :
          \E o \in OrdersFor(ranged, handler, as) : DoNotNil(c, i, m, as, o)
    \/ \E c \in CtxErrs, m \in Msgs, as \in ArgsFor(ranged) :
          \E o \in OrdersFor(ranged, handler, as) : DoNever(c, m, as, o)
    \/ \E c \in CtxErrs, e \in Errs, m \in Msgs, as \in ArgsFor(ranged) :
          \E o \in OrdersFor(ranged, handler, as \o Pair("error", e)) :
              DoNoError(c, e, m, as, o)

Next ==
    \/ \E b \in BOOLEAN : SetDeferAssertions(b)
    \/ \E f \in ExitFuncs : SetExitFunc(f)
    \/ \E f \in Hooks : Len(handler.flushes) < MaxFlushes /\ AddAssertFlush(f)
    \/ Evaluations(FALSE)
    \/ ProcessDeferredAssertions

Spec == Init /\ [][Next]_vars

ConfigNext ==
    \/ \E f \in Formatters : SetFormatter(f)
    \/ \E w \in Writers : ToWriter(w)
    \/ \E f \in ExitFuncs : SetExitFunc(f)
    \/ \E b \in BOOLEAN : SetDebugMode(b)
    \/ \E b \in BOOLEAN : SetVerboseMode(b)
    \/ Evaluations(TRUE)

SpecConfig == Init /\ [][ConfigNext]_vars

PackageNext ==
    \/ \E c \in CtxErrs, t \in BOOLEAN, m \in Msgs, os \in OptLists :
          \E o \in KeyOrder(Resolved(os), <<>>) : PkgAssert(c, t, m, os, o)
    \/ \E c \in CtxErrs, d \in Timing, t \in BOOLEAN, m \in Msgs, os \in OptLists :
          \E o \in KeyOrder(Resolved(os), <<>>) :
              PkgAssertWithTimeout(c, d[1], d[2], t, m, os, o)
    \/ \E c \in CtxErrs, i \in Items, m \in Msgs, os \in OptLists :
          \E o \in KeyOrder(Resolved(os), <<>>) : PkgNil(c, i, m, os, o)
    \/ \E c \in CtxErrs, i \in Items, m \in Msgs, os \in OptLists :
          \E o \in KeyOrder(Resolved(os), <<>>) : PkgNotNil(c, i, m, os, o)
    \/ \E c \in CtxErrs, m \in Msgs, os \in OptLists :
          \E o \in KeyOrder(Resolved(os), <<>>) : PkgNever(c, m, os, o)
    \/ \E c \in CtxErrs, e \in Errs, m \in Msgs, os \in OptLists :
          \E o \in KeyOrder(Resolved(os), Pair("error", e)) :
              PkgNoError(c, e, m, os, o)
    \/ \E c \in CtxErrs, x \in Strs, m \in Msgs, os \in OptLists :
          \E o \in KeyOrder(Resolved(os), Pair("value", x)) :
              PkgNotEmpty(c, x, m, os, o)
    \/ \E c \in CtxErrs, x, y \in Values, m \in Msgs, os \in OptLists :
          \E o \in KeyOrder(Resolved(os), Pair("expected", x) \o Pair("actual", y)) :
              PkgEqual(c, x, y, m, os, o)
    \/ \E c \in CtxErrs, x, y \in Values, m \in Msgs, os \in OptLists :
          \E o \in KeyOrder(Resolved(os), Pair("expected_not", x) \o Pair("actual", y)) :
              PkgNotEqual(c, x, y, m, os, o)
    \/ \E c \in CtxErrs, x, y \in Strs, m \in Msgs, os \in OptLists :
          \E o \in KeyOrder(Resolved(os), Pair("string", x) \o Pair("substring", y)) :
              PkgContains(c, x, y, m, os, o)
    \/ \E c \in CtxErrs, x, y \in Strs, m \in Msgs, os \in OptLists :
          \E o \in KeyOrder(Resolved(os), Pair("string", x) \o Pair("substring", y)) :
              PkgNotContains(c, x, y, m, os, o)
    \/ \E c \in CtxErrs, v \in BOOLEAN, m \in Msgs, os \in OptLists :
          \E o \in KeyOrder(Resolved(os), Pair("value", BoolStr(v))) :
              PkgTrue(c, v, m, os, o)
    \/ \E c \in CtxErrs, v \in BOOLEAN, m \in Msgs, os \in OptLists :
          \E o \in KeyOrder(Resolved(os), Pair("value", BoolStr(v))) :
              PkgFalse(c, v, m, os, o)
    \/ \E os \in OptLists : PkgProcessDeferredAssertions(os)

SpecPkg == Init /\ [][PackageNext]_vars

(***************************************************************************)
(* The record of a failing call: the pairs of the argument list and the    *)
(* contextual-data registry.  The deferred queue is drained before the     *)
(* next evaluation, so that it holds one report at most.                   *)
(***************************************************************************)
RegistryKeys == {"r", "k", "msg"}

Dumps == {<<"d1">>, <<"d2">>}

DataArgLists ==
    { <<>>,
      Pair("k", <<"v">>),
      << <<"k">> >>,
      Pair("k", <<"v">>) \o Pair("k", <<"w">>) \o << <<"r">> >>,
      Pair("area", <<"x">>),
      << NotAString, <<"v">> >> }

DataNext ==
    \/ \E k \in RegistryKeys, v \in Dumps : AddAssertData(k, v)
    \/ \E k \in RegistryKeys : RemoveAssertData(k)
    \/ \E k \in RegistryKeys, v \in Dumps : DumpChanges(k, v)
    \/ \E b \in BOOLEAN : SetDeferAssertions(b)
    \/ SetExitFunc("noop")
    \/ \E c \in CtxErrs, t \in BOOLEAN, m \in Msgs, as \in DataArgLists :
          \E ord \in KeyOrder(handler, as) :
            /\ handler.deferredErrors = <<>>
            /\ DoAssert(c, t, m, as, ord)
    \/ ProcessDeferredAssertions

SpecData == Init /\ [][DataNext]_vars

(***************************************************************************)
(* Goroutines.  SpecThreads lets several goroutines call Assert and        *)
(* ProcessDeferredAssertions on one handler, a statement at a time: the    *)
(* Lock of runAssert, its context check and assembly of the report, each   *)
(* of its writes, its append or termination call, its deferred Unlock; the *)
(* length check and join of ProcessDeferredAssertions, its write, its      *)
(* clearing of the queue, its termination call.  Here `trace` holds the    *)
(* events since a goroutine last entered                                   *)
(* or left the critical section of runAssert with nobody else inside,      *)
(* each with the goroutine that performed it.  The handler is configured   *)
(* while no call is in progress.                                           *)
(***************************************************************************)
\* Assert: if !truth { a.runAssert(...) }
EntersPipeline_Always(truth) == TRUE

EntersPipeline(truth) == ~truth

\* a.flushLock.Lock() returns only once the mutex is free
CanLock_Always(a) == TRUE

CanLock(a) == ~a.flushLock

\* the statements of runAssert after Lock, and of ProcessDeferredAssertions
\* after its length check
Critical == {"Check", "Write", "Unlock"}
Draining == {"DrainWrite", "DrainClear", "DrainExit"}

InCritical(t) == threads[t].pc \in Critical
InDrain(t) == threads[t].pc \in Draining
AllIdle == \A t \in Threads : threads[t].pc = "idle"

\* what a write of runAssert is: the notice, the ARGS line, the header, the report
KindOf(e) ==
    IF e.ev # "write" THEN e.ev
    ELSE IF Has(e.s, "Context canceled:") THEN "notice"
    ELSE IF e.s = Println(<<"ASSERT">>) THEN "header"
    ELSE IF e.s[1] = "ARGS: " THEN "args"
    ELSE "report"

\* an event with the goroutine that performed it
Tagged(e, t, kind) ==
    [ev |-> e.ev, w |-> e.w, s |-> e.s, n |-> e.n, by |-> t, kind |-> kind]

TagAll(tr, t) == [i \in 1..Len(tr) |-> Tagged(tr[i], t, KindOf(tr[i]))]

\* goroutine t calls a.Assert(ctx, truth, msg)
GoAssert(t, truth, ctxErr, msg) ==
    /\ ~exited
    /\ threads[t].pc = "idle"
    /\ threads' = IF EntersPipeline(truth)
                  THEN [threads EXCEPT ![t] = Frame("Lock", msg, ctxErr, <<>>, <<>>)]
                  ELSE threads
    /\ last' = [Called("Assert", FALSE, 0, truth, ctxErr, msg, FALSE)
                    EXCEPT !.by = t]
    /\ UNCHANGED <<handler, defaultHandler, initOnce, trace, pending, exited,
                   second>>

\* a.flushLock.Lock()
GoLock(t) ==
    /\ ~exited
    /\ threads[t].pc = "Lock"
    /\ CanLock(handler)
    /\ handler' = Lock(handler)
    /\ threads' = [threads EXCEPT ![t].pc = "Check"]
    /\ trace' = IF \E u \in Threads : InCritical(u) THEN trace ELSE <<>>
    /\ UNCHANGED <<defaultHandler, initOnce, last, pending, exited, second>>

\* the context check, and the assembly of the record and of its rendering
GoCheck(t) ==
    LET f   == threads[t]
        out == Render(handler, f.msg, <<>>, Sorted(DataKeys(handler, <<>>)))
    IN  /\ ~exited
        /\ f.pc = "Check"
        /\ threads' =
              [threads EXCEPT ![t] =
                  IF f.ctxErr # ""
                  THEN Frame("Write", f.msg, f.ctxErr,
                             Cancelled(handler, f.ctxErr).tr, <<>>)
                  ELSE Frame("Write", f.msg, f.ctxErr,
                             RunFlushes(handler) \o WriteReport(handler, <<>>, out),
                             out)]
        /\ UNCHANGED <<handler, defaultHandler, initOnce, trace, last, pending,
                       exited, second>>

\* the next flush or write of runAssert
GoWrite(t) ==
    LET f == threads[t]
    IN  /\ ~exited
        /\ f.pc = "Write"
        /\ f.todo # <<>>
        /\ trace' = trace \o TagAll(<<Head(f.todo)>>, t)
        /\ threads' = [threads EXCEPT ![t].todo = Tail(f.todo)]
        /\ UNCHANGED <<handler, defaultHandler, initOnce, last, pending, exited,
                       second>>

\* a variant that reads the context again before it queues or terminates
GoSettle_RechecksContext(t) ==
    LET f == threads[t]
        r == IF f.ctxErr # "" THEN NoEffect(handler)
             ELSE Settle(handler, f.out, <<>>)
    IN  /\ ~exited
        /\ f.pc = "Write"
        /\ f.todo = <<>>
        /\ Len(r.a.deferredErrors) <= MaxSharedQueue
        /\ handler' = r.a
        /\ trace' = trace \o TagAll(r.tr, t)
        /\ exited' = r.exited
        /\ threads' = [threads EXCEPT ![t].pc = "Unlock"]
        /\ UNCHANGED <<defaultHandler, initOnce, last, pending, second>>

\* the return of a call that found its context cancelled (it rendered
\* nothing), or the append or the termination call
GoSettle(t) ==
    LET f == threads[t]
        r == IF f.out = <<>> THEN NoEffect(handler)
             ELSE Settle(handler, f.out, <<>>)
    IN  /\ ~exited
        /\ f.pc = "Write"
        /\ f.todo = <<>>
        /\ Len(r.a.deferredErrors) <= MaxSharedQueue
        /\ handler' = r.a
        /\ trace' = trace \o TagAll(r.tr, t)
        /\ exited' = r.exited
        /\ threads' = [threads EXCEPT ![t].pc = "Unlock"]
        /\ UNCHANGED <<defaultHandler, initOnce, last, pending, second>>

\* the deferred a.flushLock.Unlock(), and the return
GoUnlock(t) ==
    /\ ~exited
    /\ threads[t].pc = "Unlock"
    /\ handler' = Unlock(handler)
    /\ threads' = [threads EXCEPT ![t] = Idle]
    /\ trace' = IF \E u \in Threads \ {t} : InCritical(u) THEN trace ELSE <<>>
    /\ UNCHANGED <<defaultHandler, initOnce, last, pending, exited, second>>

\* goroutine t calls a.ProcessDeferredAssertions(ctx): the length check and
\* the join
GoDrain(t) ==
    /\ ~exited
    /\ threads[t].pc = "idle"
    /\ threads' =
          IF Len(handler.deferredErrors) > 0
          THEN [threads EXCEPT ![t] =
                   Frame("DrainWrite", <<>>, "", <<>>,
                         Join(handler.deferredErrors, Sep))]
          ELSE threads
    /\ last' = [Called("ProcessDeferredAssertions", FALSE, 0, TRUE, "", <<>>,
                       FALSE) EXCEPT !.by = t]
    /\ UNCHANGED <<handler, defaultHandler, initOnce, trace, pending, exited,
                   second>>

\* fmt.Fprintln(a.writer, combinedErrors)
GoDrainWrite(t) ==
    /\ ~exited
    /\ threads[t].pc = "DrainWrite"
    /\ trace' = Append(trace, Tagged(WriteEv(handler.writer,
                                             Println(threads[t].out)), t, "drain"))
    /\ threads' = [threads EXCEPT ![t].pc = "DrainClear"]
    /\ UNCHANGED <<handler, defaultHandler, initOnce, last, pending, exited,
                   second>>

\* a.deferredErrors = []string{}
GoDrainClear(t) ==
    /\ ~exited
    /\ threads[t].pc = "DrainClear"
    /\ handler' = [handler EXCEPT !.deferredErrors = <<>>]
    /\ threads' = [threads EXCEPT ![t].pc = "DrainExit"]
    /\ UNCHANGED <<defaultHandler, initOnce, trace, last, pending, exited,
                   second>>

\* a.exitFunc(1), and the return
GoDrainExit(t) ==
    LET r == CallExit(handler, 1, <<>>)
    IN  /\ ~exited
        /\ threads[t].pc = "DrainExit"
        /\ trace' = trace \o TagAll(r.tr, t)
        /\ exited' = r.exited
        /\ threads' = [threads EXCEPT ![t] = Idle]
        /\ UNCHANGED <<handler, defaultHandler, initOnce, last, pending,
                       second>>

\* the message each goroutine asserts with
MsgOf == [t \in Threads |-> IF t = "g1" THEN <<"A">> ELSE <<"B">>]

ThreadNext ==
    \/ AllIdle /\ \E b \in BOOLEAN : SetDeferAssertions(b)
    \/ AllIdle /\ SetExitFunc("noop")
    \/ AllIdle /\ \E b \in BOOLEAN : SetVerboseMode(b)
    \/ \E t \in Threads, b \in BOOLEAN, c \in CtxErrs :
          GoAssert(t, b, c, MsgOf[t])
    \/ \E t \in Threads : GoLock(t)
    \/ \E t \in Threads : GoCheck(t)
    \/ \E t \in Threads : GoWrite(t)
    \/ \E t \in Threads : GoSettle(t)
    \/ \E t \in Threads : GoUnlock(t)
    \/ \E t \in Threads : GoDrain(t)
    \/ \E t \in Threads : GoDrainWrite(t)
    \/ \E t \in Threads : GoDrainClear(t)
    \/ \E t \in Threads : GoDrainExit(t)

SpecThreads == Init /\ [][ThreadNext]_vars

\* The context of a call in progress is cancelled (by its owner, or by its
\* deadline): ctx.Err() is non-nil from now on.
GoCancel(t) ==
    /\ ~exited
    /\ threads[t].pc \in {"Lock"} \cup Critical
    /\ threads[t].ctxErr = ""
    /\ threads' = [threads EXCEPT ![t].ctxErr = "context canceled"]
    /\ UNCHANGED <<handler, defaultHandler, initOnce, trace, last, pending, exited,
                   second>>

CancelNext ==
    \/ ThreadNext
    \/ \E t \in Threads : GoCancel(t)

SpecCancel == Init /\ [][CancelNext]_vars

(***************************************************************************)
(* Goroutines making package-level calls while the default handler is      *)
(* still to be built.  getDefaultHandler runs its three statements inside  *)
(* initOnce.Do: sync.Once lets one caller in, keeps every other caller     *)
(* waiting until that one has returned, and lets nobody in afterwards.     *)
(* `initOnce` is the flag of the Once, set when the function has run.      *)
(***************************************************************************)
InOnce == {"OnceNew", "OnceSetExit", "OnceToWriter", "OnceDone"}

\* some goroutine is running the function passed to initOnce.Do
OnceBusy == \E u \in Threads : threads[u].pc \in InOnce

\* a variant of Once that lets a caller in while another is still inside
OnceAdmits_Always(done, busy) == ~done

\* Do(f) runs f for the caller that finds the flag clear and nobody inside
OnceAdmits(done, busy) == ~done /\ ~busy

\* goroutine t calls the package-level Assert(truth, ctx, msg)
GoPkgAssert(t, truth, ctxErr, msg) ==
    /\ ~exited
    /\ threads[t].pc = "idle"
    /\ threads' = [threads EXCEPT ![t] =
                      Frame("OnceDo", msg, ctxErr, <<[ok |-> truth]>>, <<>>)]
    /\ UNCHANGED <<handler, defaultHandler, initOnce, trace, last, pending,
                   exited, second>>

\* initOnce.Do(...): return at once if it has run, run it if admitted, wait
\* otherwise
OnceDo(t) ==
    /\ ~exited
    /\ threads[t].pc = "OnceDo"
    /\ initOnce \/ OnceAdmits(initOnce, OnceBusy)
    /\ threads' = [threads EXCEPT ![t].pc =
                      IF initOnce THEN "Return" ELSE "OnceNew"]
    /\ UNCHANGED <<handler, defaultHandler, initOnce, trace, last, pending,
                   exited, second>>

\* defaultHandler = NewAssertHandler()
OnceNew(t) ==
    /\ ~exited
    /\ threads[t].pc = "OnceNew"
    /\ defaultHandler' = NewAssertHandler
    /\ threads' = [threads EXCEPT ![t].pc = "OnceSetExit"]
    /\ UNCHANGED <<handler, initOnce, trace, last, pending, exited, second>>

\* defaultHandler.SetExitFunc(func(code int) {})
OnceSetExit(t) ==
    /\ ~exited
    /\ threads[t].pc = "OnceSetExit"
    /\ defaultHandler' = [defaultHandler EXCEPT !.exitFunc = "noop"]
    /\ threads' = [threads EXCEPT ![t].pc = "OnceToWriter"]
    /\ UNCHANGED <<handler, initOnce, trace, last, pending, exited, second>>

\* defaultHandler.ToWriter(os.Stderr)
OnceToWriter(t) ==
    /\ ~exited
    /\ threads[t].pc = "OnceToWriter"
    /\ defaultHandler' = [defaultHandler EXCEPT !.writer = "stderr"]
    /\ threads' = [threads EXCEPT ![t].pc = "OnceDone"]
    /\ UNCHANGED <<handler, initOnce, trace, last, pending, exited, second>>

\* the function has returned: Do sets the flag and lets the waiters go
OnceDone(t) ==
    /\ ~exited
    /\ threads[t].pc = "OnceDone"
    /\ initOnce' = TRUE
    /\ threads' = [threads EXCEPT ![t].pc = "Return"]
    /\ UNCHANGED <<handler, defaultHandler, trace, last, pending, exited,
                   second>>

\* return defaultHandler: the caller reads the variable
GoGetDefault(t) ==
    /\ ~exited
    /\ threads[t].pc = "Return"
    /\ threads' = [threads EXCEPT ![t].pc = "Eval", ![t].out = defaultHandler]
    /\ UNCHANGED <<handler, defaultHandler, initOnce, trace, last, pending,
                   exited, second>>

\* the evaluation on the handler the caller was given
GoPkgEval(t) ==
    LET f == threads[t]
        r == HAssert(f.out, f.ctxErr, f.todo[1].ok, f.msg, <<>>,
                     Sorted(DataKeys(f.out, <<>>)))
    IN  /\ ~exited
        /\ f.pc = "Eval"
        /\ trace' = r.tr
        /\ exited' = r.exited
        /\ last' = [Called("Assert", TRUE, 0, f.todo[1].ok, f.ctxErr, f.msg,
                           r.raised) EXCEPT !.by = t]
        /\ threads' = [threads EXCEPT ![t] = Idle]
        /\ UNCHANGED <<handler, defaultHandler, initOnce, pending, second>>

OnceNext ==
    \/ \E t \in Threads, b \in BOOLEAN, c \in CtxErrs :
          GoPkgAssert(t, b, c, MsgOf[t])
    \/ \E t \in Threads : OnceDo(t)
    \/ \E t \in Threads : OnceNew(t)
    \/ \E t \in Threads : OnceSetExit(t)
    \/ \E t \in Threads : OnceToWriter(t)
    \/ \E t \in Threads : OnceDone(t)
    \/ \E t \in Threads : GoGetDefault(t)
    \/ \E t \in Threads : GoPkgEval(t)

SpecOnce == Init /\ [][OnceNext]_vars

(***************************************************************************)
(* Goroutines making failing package-level calls.  A call without options  *)
(* runs on the default handler and takes its flushLock; a call with        *)
(* options runs on the handler applyOptions has just built, whose          *)
(* flushLock is a mutex of its own that nobody else can hold.  Both write  *)
(* to the writer copied from the default handler.  The frame keeps the     *)
(* handler of the call in `out`; the trace keeps the events of the calls   *)
(* still in progress.                                                      *)
(***************************************************************************)
PkgOptLists == {<<>>, <<Opt("WithDebugMode", "")>>}

InPkgPipeline(t) == threads[t].pc \in {"PkgWrite", "PkgSettle", "PkgUnlock"}

\* goroutine t calls Assert(ctx, truth, msg, opts...): applyOptions, then
\* handler.Assert, which returns at once if the check is satisfied
GoPkgCall(t, truth, ctxErr, msg, opts) ==
    /\ ~exited
    /\ threads[t].pc = "idle"
    /\ defaultHandler' = getDefaultHandler(defaultHandler, initOnce)
    /\ initOnce' = TRUE
    /\ threads' =
          IF EntersPipeline(truth)
          THEN [threads EXCEPT ![t] =
                   Frame("PkgLock", msg, ctxErr, <<>>,
                         [h   |-> applyOptions(defaultHandler, initOnce, opts),
                          own |-> Len(opts) > 0])]
          ELSE threads
    /\ last' = [Called("Assert", TRUE, Len(opts), truth, ctxErr, msg, FALSE)
                    EXCEPT !.by = t, !.opts = opts]
    /\ UNCHANGED <<handler, trace, pending, exited, second>>

\* a.flushLock.Lock() on the handler of the call, then the context check and
\* the assembly of what is to be written
GoPkgLock(t) ==
    LET f == threads[t]
        a == f.out.h
        formattedOutput == Render(a, f.msg, <<>>, Sorted(DataKeys(a, <<>>)))
    IN  /\ ~exited
        /\ f.pc = "PkgLock"
        /\ f.out.own \/ CanLock(defaultHandler)
        /\ defaultHandler' = IF f.out.own THEN defaultHandler
                             ELSE Lock(defaultHandler)
        /\ threads' =
              [threads EXCEPT ![t].pc = "PkgWrite",
                              ![t].todo =
                                  IF f.ctxErr # "" THEN Cancelled(a, f.ctxErr).tr
                                  ELSE RunFlushes(a)
                                       \o WriteReport(a, <<>>, formattedOutput)]
        /\ trace' = IF \E u \in Threads : InPkgPipeline(u) THEN trace ELSE <<>>
        /\ UNCHANGED <<handler, initOnce, last, pending, exited, second>>

\* the next write of runAssert
GoPkgWrite(t) ==
    LET f == threads[t]
    IN  /\ ~exited
        /\ f.pc = "PkgWrite"
        /\ threads' = [threads EXCEPT ![t].todo = Tail(f.todo),
                                      ![t].pc = IF Len(f.todo) = 1 THEN "PkgSettle"
                                                ELSE "PkgWrite"]
        /\ trace' = trace \o TagAll(<<Head(f.todo)>>, t)
        /\ UNCHANGED <<handler, defaultHandler, initOnce, last, pending, exited,
                       second>>

\* a.exitFunc(1), unless the context was cancelled
GoPkgSettle(t) ==
    LET f == threads[t]
        r == IF f.ctxErr # "" THEN NoEffect(f.out.h)
             ELSE CallExit(f.out.h, 1, <<>>)
    IN  /\ ~exited
        /\ f.pc = "PkgSettle"
        /\ trace' = trace \o TagAll(r.tr, t)
        /\ exited' = r.exited
        /\ threads' = [threads EXCEPT ![t].pc = "PkgUnlock"]
        /\ UNCHANGED <<handler, defaultHandler, initOnce, last, pending,
                       second>>

\* the deferred a.flushLock.Unlock(), and the return
GoPkgUnlock(t) ==
    /\ ~exited
    /\ threads[t].pc = "PkgUnlock"
    /\ defaultHandler' = IF threads[t].out.own THEN defaultHandler
                         ELSE Unlock(defaultHandler)
    /\ threads' = [threads EXCEPT ![t] = Idle]
    /\ trace' = SelectSeq(trace, LAMBDA e : e.by # t)
    /\ UNCHANGED <<handler, initOnce, last, pending, exited, second>>

PkgThreadNext ==
    \/ \E t \in Threads, b \in BOOLEAN, c \in CtxErrs, os \in PkgOptLists :
          GoPkgCall(t, b, c, MsgOf[t], os)
    \/ \E t \in Threads : GoPkgLock(t)
    \/ \E t \in Threads : GoPkgWrite(t)
    \/ \E t \in Threads : GoPkgSettle(t)
    \/ \E t \in Threads : GoPkgUnlock(t)

SpecPkgThreads == Init /\ [][PkgThreadNext]_vars

(***************************************************************************)
(* Goroutines calling Assert on a handler with flush hooks.  A hook is     *)
(* code of the program: "f1" only flushes, "reenter" evaluates a check of  *)
(* its own on the same handler from inside Flush().  sync.Mutex is not     *)
(* re-entrant: the Lock of the inner runAssert waits for the Unlock that   *)
(* the outer one has deferred.                                             *)
(***************************************************************************)
HookPool == {"f1", "reenter"}

\* goroutine t is about to call the hook that evaluates a check
AtReentrantHook(t) ==
    /\ threads[t].pc = "Write"
    /\ threads[t].todo # <<>>
    /\ Head(threads[t].todo) = FlushEv("reenter")

\* f.Flush() of the hook "reenter": a.Assert(ctx, truth, msg) on the handler
\* whose lock the goroutine holds.  A satisfied check returns to the loop over
\* the hooks; a failing one enters runAssert and stands at its Lock, the rest
\* of the outer call kept for its return.
GoHook(t, truth) ==
    LET f == threads[t]
    IN  /\ ~exited
        /\ AtReentrantHook(t)
        /\ trace' = trace \o TagAll(<<Head(f.todo)>>, t)
        /\ threads' =
              IF EntersPipeline(truth)
              THEN [threads EXCEPT ![t] =
                       Frame("Lock", f.msg, f.ctxErr, Tail(f.todo), f.out)]
              ELSE [threads EXCEPT ![t].todo = Tail(f.todo)]
        /\ last' = [Called("Assert", FALSE, 0, truth, f.ctxErr, f.msg, FALSE)
                        EXCEPT !.by = t]
        /\ UNCHANGED <<handler, defaultHandler, initOnce, pending, exited,
                       second>>

\* the steps of goroutine t inside a call
GoStep(t) ==
    \/ GoLock(t)
    \/ GoCheck(t)
    \/ ~AtReentrantHook(t) /\ GoWrite(t)
    \/ \E b \in BOOLEAN : GoHook(t, b)
    \/ GoSettle(t)
    \/ GoUnlock(t)

HooksNext ==
    \/ AllIdle /\ \E f \in HookPool :
          Len(handler.flushes) < MaxHooks /\ AddAssertFlush(f)
    \/ AllIdle /\ SetExitFunc("noop")
    \/ AllIdle /\ \E b \in BOOLEAN : SetVerboseMode(b)
    \/ \E t \in Threads, b \in BOOLEAN, c \in CtxErrs :
          GoAssert(t, b, c, MsgOf[t])
    \/ \E t \in Threads : GoLock(t)
    \/ \E t \in Threads : GoCheck(t)
    \/ \E t \in Threads : ~AtReentrantHook(t) /\ GoWrite(t)
    \/ \E t \in Threads, b \in BOOLEAN : GoHook(t, b)
    \/ \E t \in Threads : GoSettle(t)
    \/ \E t \in Threads : GoUnlock(t)

SpecHooks == Init /\ [][HooksNext]_vars

\* The Go scheduler runs every goroutine that can take a step.
SpecHooksFair == SpecHooks /\ \A t \in Threads : WF_vars(GoStep(t))

(***************************************************************************)
(* The earlier handler kept in the repository (src/unnamed/part_003).  It  *)
(* has no debug or verbose mode: its runAssert always prints the ARGS line *)
(* and always captures the stack.  Its setters, its                        *)
(* ProcessDeferredAssertions and its pipeline from the header on are those *)
(* of src/assert.go.  SpecLegacy explores its Nil and NotNil.              *)
(***************************************************************************)
LegacyNewAssertHandler ==
    [ flushes         |-> <<>>,
      assertData      |-> EmptyMap,
      writer          |-> "stderr",
      flushLock       |-> FALSE,
      exitFunc        |-> "os.Exit",
      formatter       |-> "text",
      deferredErrors  |-> <<>>,
      deferAssertions |-> FALSE ]

LegacyPipeline(a, ctxErr, msg, args, ord) ==
    LET formattedOutput ==
            Format(a.formatter, BuildData(a, msg, args), StackText, ord)
    IN  IF ctxErr # "" THEN Cancelled(a, ctxErr)
        ELSE IF ArgsPanic(args) THEN Result(a, RunFlushes(a), TRUE, FALSE)
        ELSE Settle(a, formattedOutput,
                    RunFlushes(a)
                    \o << WriteEv(a.writer, ArgsLine(args)),
                          WriteEv(a.writer, Println(<<"ASSERT">>)),
                          WriteEv(a.writer, Println(formattedOutput)) >>)

LegacyRunAssert(a, ctxErr, msg, args, ord) ==
    Deferred(LegacyPipeline(Lock(a), ctxErr, msg, args, ord))

LegacyNil(a, ctxErr, item, msg, args, ord) ==
    After(SlogEv("Nil Check"),
          IF item = NilItem
          THEN LegacyRunAssert(a, ctxErr, msg, args, ord)
          ELSE After(SlogEv("Nil#not nil encountered"),
                     LegacyRunAssert(a, ctxErr, msg, args, ord)))

LegacyNotNil(a, ctxErr, item, msg, args, ord) ==
    IF item = NilItem
    THEN After(SlogEv("NotNil#nil encountered"),
               LegacyRunAssert(a, ctxErr, msg, args, ord))
    ELSE NoEffect(a)

InitLegacy ==
    /\ threads = [t \in Threads |-> Idle]
    /\ handler = LegacyNewAssertHandler
    /\ defaultHandler = NilHandler
    /\ initOnce = FALSE
    /\ trace = <<>>
    /\ last = Called("NewAssertHandler", FALSE, 0, TRUE, "", <<>>, FALSE)
    /\ pending = <<>>
    /\ exited = FALSE
    /\ second = NilHandler

DoLegacyNil(ctxErr, item, msg, args, ord) ==
        HandlerCall("Nil", Ins(item, <<>>, args), item = NilItem, ctxErr, msg,
                    LegacyNil(handler, ctxErr, item, msg, args, ord))

DoLegacyNotNil(ctxErr, item, msg, args, ord) ==
        HandlerCall("NotNil", Ins(item, <<>>, args), item # NilItem, ctxErr, msg,
                    LegacyNotNil(handler, ctxErr, item, msg, args, ord))

LegacyNext ==
    \/ \E b \in BOOLEAN : SetDeferAssertions(b)
    \/ \E f \in ExitFuncs : SetExitFunc(f)
    \/ \E c \in CtxErrs, i \in Items, m \in Msgs, as \in ArgLists :
          \E o \in KeyOrder(handler, as) : DoLegacyNil(c, i, m, as, o)
    \/ \E c \in CtxErrs, i \in Items, m \in Msgs, as \in ArgLists :
          \E o \in KeyOrder(handler, as) : DoLegacyNotNil(c, i, m, as, o)
    \/ ProcessDeferredAssertions

SpecLegacy == InitLegacy /\ [][LegacyNext]_vars

(***************************************************************************)
(* What the properties below read off a call and its events.               *)
(***************************************************************************)
EvalOps ==
    {"Assert", "AssertWithTimeout", "Nil", "NotNil", "Never", "NoError",
     "NotEmpty", "Equal", "NotEqual", "Contains", "NotContains", "True", "False"}

IsEval(c) == c.op \in EvalOps
Failing(c) == IsEval(c) /\ ~c.ok
Live(c) == c.ctxErr = ""

WritesOf(tr)  == SelectSeq(tr, LAMBDA e : e.ev = "write")
ExitsOf(tr)   == SelectSeq(tr, LAMBDA e : e.ev = "exit")
FlushesOf(tr) == SelectSeq(tr, LAMBDA e : e.ev = "flush")

IsNotice(e) == e.ev = "write" /\ Has(e.s, "Context canceled:")
IsReportOf(e, msg) == e.ev = "write" /\ HasRun(e.s, msg)
Reported(tr, msg) == \E i \in 1..Len(tr) : IsReportOf(tr[i], msg)
RealExit(tr) == \E i \in 1..Len(tr) : tr[i].ev = "exit" /\ tr[i].w = "os.Exit"

\* the two states the package can be in: before and after first use
PackageStates == {<<NilHandler, FALSE>>, <<InitDefault, TRUE>>}

\* a package-level call left everything as it was
Quiet(r, d, once) ==
    /\ r.tr = <<>> /\ ~r.raised /\ ~r.exited
    /\ r.once = once
    /\ IF once THEN r.d = d ELSE r.d = NilHandler

(***************************************************************************)
(* C1.  An evaluation whose check is satisfied writes nothing, does not    *)
(* call the termination action and leaves the deferred queue (indeed the   *)
(* whole handler) unchanged: for the methods of a handler in every         *)
(* reachable state, and for the package-level predicates in both package   *)
(* states, with and without options.                                       *)
(***************************************************************************)
PackagePredicatesPass ==
    \A p \in PackageStates, c \in CtxErrs, m \in Msgs, os \in OptLists :
        LET d == p[1]
            once == p[2]
        IN  /\ \A x \in Values :
                    Quiet(PEqual(d, once, c, x, x, m, os, <<>>), d, once)
            /\ \A x, y \in Values : x # y =>
                    Quiet(PNotEqual(d, once, c, x, y, m, os, <<>>), d, once)
            /\ \A x, y \in Strs : HasRun(x, y) =>
                    Quiet(PContains(d, once, c, x, y, m, os, <<>>), d, once)
            /\ \A x, y \in Strs : ~HasRun(x, y) =>
                    Quiet(PNotContains(d, once, c, x, y, m, os, <<>>), d, once)
            /\ Quiet(PTrue(d, once, c, TRUE, m, os, <<>>), d, once)
            /\ Quiet(PFalse(d, once, c, FALSE, m, os, <<>>), d, once)
            /\ \A x \in Strs : x # <<>> =>
                    Quiet(PNotEmpty(d, once, c, x, m, os, <<>>), d, once)

C1_SatisfiedCheckHasNoEffect ==
    [][ (IsEval(last') /\ last'.ok) =>
            /\ trace' = <<>>
            /\ handler' = handler
            /\ exited' = exited
            /\ ~last'.raised
            /\ PackagePredicatesPass ]_vars

C1_Witness ==
    /\ IsEval(last) /\ last.ok /\ last.op = "Nil" /\ ~Live(last)
    /\ handler.deferAssertions /\ Len(handler.deferredErrors) > 0
    /\ handler.flushes # <<>>

(***************************************************************************)
(* C2.  A failing evaluation in immediate mode on a live context ends with *)
(* exactly one call of the termination action, with status 1, and the      *)
(* write just before it is the report, which contains the message.         *)
(***************************************************************************)
C2_ReportThenExitOnce ==
    (Failing(last) /\ Live(last) /\ ~last.pkg /\ ~handler.deferAssertions) =>
        LET n == Len(trace)
        IN  /\ n >= 2
            /\ trace[n] = ExitEv(handler.exitFunc, 1)
            /\ Len(ExitsOf(trace)) = 1
            /\ trace[n - 1].ev = "write"
            /\ trace[n - 1].w = handler.writer
            /\ HasRun(trace[n - 1].s, last.msg)

C2_Witness ==
    /\ Failing(last) /\ Live(last) /\ ~last.pkg
    /\ handler.formatter = "json" /\ handler.verboseMode
    /\ handler.exitFunc = "noop" /\ handler.writer = "buffer"
    /\ Len(trace) = 4

(***************************************************************************)
(* C3.  A failing package-level call made without options never calls      *)
(* os.Exit, and the default handler's termination action stays the no-op.  *)
(* As stated (the report is written whatever the context) it fails; it     *)
(* holds when the context is live.                                         *)
(***************************************************************************)
DefaultExitIsNoop == initOnce => defaultHandler.exitFunc = "noop"

C3_Original ==
    /\ DefaultExitIsNoop
    /\ (Failing(last) /\ last.pkg /\ last.nopts = 0) =>
            (Reported(trace, last.msg) /\ ~RealExit(trace) /\ ~exited)

C3_DefaultCallReportsAndContinues ==
    /\ DefaultExitIsNoop
    /\ (Failing(last) /\ last.pkg /\ last.nopts = 0) =>
            (~RealExit(trace) /\ ~exited /\ ~last.raised)
    /\ (Failing(last) /\ last.pkg /\ last.nopts = 0 /\ Live(last)) =>
            (Reported(trace, last.msg) /\ trace[Len(trace)] = ExitEv("noop", 1))

C3_Witness ==
    /\ Failing(last) /\ last.pkg /\ last.nopts = 0 /\ Live(last)
    /\ last.op = "Equal" /\ Reported(trace, <<"42">>)

(***************************************************************************)
(* C4.  A handler as NewAssertHandler returns it calls os.Exit(1) on a     *)
(* failing evaluation: termination is not opt-in for an explicit handler.  *)
(* What holds: the process ends iff the handler's termination action is    *)
(* os.Exit, which is the constructor's, and the call raises iff it is the  *)
(* panicking one.                                                          *)
(***************************************************************************)
\* nothing has been set on the handler since it was constructed
AsConstructed(a) == Unlock(a) = NewAssertHandler

C6_CancelledFailureOnlyNotifies ==
    [][ (Failing(last') /\ ~Live(last') /\ ~last'.pkg) =>
            /\ WritesOf(trace') =
                   <<WriteEv(handler.writer, CancelNotice(last'.ctxErr))>>
            /\ FlushesOf(trace') = <<>>
            /\ ExitsOf(trace') = <<>>
            /\ handler'.deferredErrors = handler.deferredErrors
            /\ ~handler'.flushLock
            /\ ~exited' /\ ~last'.raised ]_vars

C6_Witness ==
    /\ Failing(last) /\ ~Live(last) /\ ~last.pkg
    /\ handler.deferAssertions /\ handler.flushes # <<>>
    /\ Len(handler.deferredErrors) = 1 /\ Len(WritesOf(trace)) = 1

(***************************************************************************)
(* C7.  On a cancelled context a failing evaluation produces the notice    *)
(* and never a report; an evaluation whose check is satisfied produces     *)
(* nothing at all, so "any condition, true or false" fails for true.       *)
(***************************************************************************)
Notified(tr) == \E i \in 1..Len(tr) : IsNotice(tr[i])
HasReport(tr) == \E i \in 1..Len(tr) : tr[i].ev = "write" /\ Has(tr[i].s, "ASSERT")

C7_Original ==
    (IsEval(last) /\ ~Live(last)) => (Notified(trace) /\ ~HasReport(trace))

C7_CancelledNeverReports ==
    /\ (Failing(last) /\ ~Live(last)) => (Notified(trace) /\ ~HasReport(trace))
    /\ (IsEval(last) /\ last.ok /\ ~Live(last)) => trace = <<>>

C7_Witness ==
    /\ Failing(last) /\ last.ctxErr = "context deadline exceeded"
    /\ ~handler.deferAssertions /\ Notified(trace)

(***************************************************************************)
(* C8.  A failing evaluation in deferred mode on a live context appends    *)
(* one entry, the report text it has just written, to the end of the queue *)
(* and does not call the termination action.                               *)
(***************************************************************************)
C8_DeferredFailureAppendsOne ==
    [][ (Failing(last') /\ Live(last') /\ ~last'.pkg /\ handler.deferAssertions) =>
            /\ Len(handler'.deferredErrors) = Len(handler.deferredErrors) + 1
            /\ SubSeq(handler'.deferredErrors, 1, Len(handler.deferredErrors))
                   = handler.deferredErrors
            /\ trace'[Len(trace')] =
                   WriteEv(handler.writer,
                           Println(handler'.deferredErrors[Len(handler'.deferredErrors)]))
            /\ ExitsOf(trace') = <<>>
            /\ ~exited' /\ ~last'.raised ]_vars

C8_Witness ==
    /\ Failing(last) /\ Live(last) /\ ~last.pkg /\ handler.deferAssertions
    /\ Len(handler.deferredErrors) = 2
    /\ handler.deferredErrors[1] # handler.deferredErrors[2]
    /\ handler.exitFunc = "os.Exit"

(***************************************************************************)
(* C9.  ProcessDeferredAssertions on a non-empty queue makes one write,    *)
(* the entries in queue order with the separator between them (entry i     *)
(* being the report of the i-th deferred failure since the last drain),    *)
(* empties the queue and then calls the termination action once, with 1.   *)
(***************************************************************************)
SepJoined(q) ==
    Concat([i \in 1..Len(q) |-> IF i = 1 THEN q[i] ELSE <<Sep>> \o q[i]])

C9_DrainWritesAllInOrder ==
    [][ (last'.op = "ProcessDeferredAssertions" /\ ~last'.pkg
         /\ handler.deferredErrors # <<>>) =>
            /\ trace' = << WriteEv(handler.writer,
                                   SepJoined(handler.deferredErrors) \o <<"\n">>),
                           ExitEv(handler.exitFunc, 1) >>
            /\ Len(pending) = Len(handler.deferredErrors)
            /\ \A i \in 1..Len(pending) :
                   HasRun(handler.deferredErrors[i], pending[i])
            /\ handler'.deferredErrors = <<>> ]_vars

C9_Witness ==
    /\ last.op = "ProcessDeferredAssertions" /\ ~last.pkg
    /\ Len(trace) = 2 /\ trace[1].ev = "write"
    /\ \E i, j \in 1..Len(trace[1].s) :
           i < j /\ trace[1].s[i] = "B" /\ trace[1].s[j] = Sep
                 /\ \E k \in (j + 1)..Len(trace[1].s) : trace[1].s[k] = "A"
    /\ handler.deferredErrors = <<>>

(***************************************************************************)
(* C10.  ProcessDeferredAssertions on an empty queue writes nothing, does  *)
(* not call the termination action and changes no field of the handler.    *)
(***************************************************************************)
C10_EmptyDrainIsNoOp ==
    [][ (last'.op = "ProcessDeferredAssertions" /\ ~last'.pkg
         /\ handler.deferredErrors = <<>>) =>
            /\ trace' = <<>>
            /\ handler' = handler
            /\ ~exited' /\ ~last'.raised ]_vars

C10_Witness ==
    /\ last.op = "ProcessDeferredAssertions" /\ ~last.pkg
    /\ trace = <<>> /\ handler.exitFunc = "os.Exit"
    /\ handler.deferAssertions

(***************************************************************************)
(* C11.  As stated: in defer mode a failing evaluation writes nothing, its *)
(* report reaching the sink only at the drain, once.  The code writes the  *)
(* report at the failure and again at the drain.                           *)
(***************************************************************************)
C11_Original ==
    (Failing(last) /\ Live(last) /\ ~last.pkg /\ handler.deferAssertions) =>
        WritesOf(trace) = <<>>

(***************************************************************************)
(* C12.  At most one goroutine is inside runAssert after its Lock, and the *)
(* writes of one report follow one another with no write of another        *)
(* failing evaluation between them: the report comes right after the       *)
(* header of the same goroutine, and in verbose mode the header right      *)
(* after its ARGS line.                                                    *)
(***************************************************************************)
EvalWrites ==
    SelectSeq(trace, LAMBDA e : e.kind \in {"notice", "args", "header", "report"})

C12_ReportsNeverInterleave ==
    /\ \A t, u \in Threads : (InCritical(t) /\ InCritical(u)) => t = u
    /\ \A j \in 1..Len(EvalWrites) :
          LET e == EvalWrites
          IN  /\ e[j].kind = "report" =>
                    (j > 1 /\ e[j - 1].kind = "header" /\ e[j - 1].by = e[j].by)
              /\ (e[j].kind = "header" /\ handler.verboseMode) =>
                    (j > 1 /\ e[j - 1].kind = "args" /\ e[j - 1].by = e[j].by)

C12_Witness ==
    /\ threads["g1"].pc = "Write" /\ threads["g1"].todo # <<>>
    /\ threads["g2"].pc = "Lock"
    /\ handler.verboseMode
    /\ Len(EvalWrites) = 2 /\ EvalWrites[2].kind = "header"

(***************************************************************************)
(* C13.  As stated: a drain never overlaps a failing evaluation or another *)
(* drain on the same handler.  ProcessDeferredAssertions takes no lock.    *)
(***************************************************************************)
C13_Original ==
    \A t, u \in Threads :
        (t # u /\ InDrain(t)) => ~(InCritical(u) \/ InDrain(u))

(***************************************************************************)
(* C14.  A call whose check is satisfied returns at once, whoever holds    *)
(* the lock: it takes no step towards the lock, and changes neither the    *)
(* handler nor the output.                                                 *)
(***************************************************************************)
C14_PassingCallNeverWaits ==
    [][ (last' # last /\ IsEval(last') /\ last'.ok /\ last'.by \in Threads) =>
            /\ threads' = threads
            /\ threads'[last'.by].pc = "idle"
            /\ handler' = handler
            /\ trace' = trace
            /\ exited' = exited ]_vars

C14_Witness ==
    /\ IsEval(last) /\ last.ok /\ last.by = "g2"
    /\ threads["g2"].pc = "idle"
    /\ threads["g1"].pc = "Write" /\ threads["g1"].todo # <<>>
    /\ handler.flushLock

(***************************************************************************)
(* C15.  The configuration a package-level call resolves is a              *)
(* last-write-wins fold: each field has the value given by the last option *)
(* of the list that sets it, or the default handler's value if none does.  *)
(* Checked for every list of up to MaxOpts options over both package       *)
(* states, and on the events of every failing package-level call.          *)
(***************************************************************************)
MaxOpts == 2

AllOptions ==
    { Opt("WithFormatter", "json"), Opt("WithWriter", "buffer"),
      Opt("WithExitFunc", "panic"), Opt("WithDeferMode", "true"),
      Opt("WithDeferMode", "false"), Opt("WithDebugMode", ""),
      Opt("WithVerboseMode", ""), Opt("WithQuietMode", ""),
      Opt("WithCrashOnFailure", ""), Opt("WithPanicOnFailure", ""),
      Opt("WithSilentMode", ""), Opt("WithLogLevel", "info"),
      Opt("WithTestingDefaults", ""), Opt("WithProductionDefaults", "") }

OptSeqs == UNION {[1..n -> AllOptions] : n \in 0..MaxOpts}

ConfigFields ==
    {"formatter", "writer", "exitFunc", "deferMode", "debugMode", "verboseMode"}

\* the configuration fields of a handler
ConfigOf(h) ==
    [ formatter   |-> h.formatter,
      writer      |-> h.writer,
      exitFunc    |-> h.exitFunc,
      deferMode   |-> h.deferAssertions,
      debugMode   |-> h.debugMode,
      verboseMode |-> h.verboseMode ]

\* two configurations that differ in every field: an option sets a field iff
\* it leaves the same value in it from both
ConfigLo ==
    [ formatter |-> "text", writer |-> "stderr", exitFunc |-> "noop",
      deferMode |-> FALSE, debugMode |-> FALSE, verboseMode |-> FALSE ]
ConfigHi ==
    [ formatter |-> "yaml", writer |-> "file", exitFunc |-> "custom",
      deferMode |-> TRUE, debugMode |-> TRUE, verboseMode |-> TRUE ]

SetsField(o, f) == ApplyOption(ConfigLo, o)[f] = ApplyOption(ConfigHi, o)[f]
ValueSet(o, f) == ApplyOption(ConfigLo, o)[f]

Setters(opts, f) == {i \in 1..Len(opts) : SetsField(opts[i], f)}
Latest(S) == CHOOSE i \in S : \A j \in S : j <= i

LastWriteWins(base, opts) ==
    [f \in ConfigFields |->
        IF Setters(opts, f) = {} THEN base[f]
        ELSE ValueSet(opts[Latest(Setters(opts, f))], f)]

FoldIsLastWriteWins ==
    \A p \in PackageStates, opts \in OptSeqs :
        LET base == getDefaultHandler(p[1], p[2])
            h    == applyOptions(p[1], p[2], opts)
        IN  /\ ConfigOf(h) = LastWriteWins(ConfigOf(base), opts)
            /\ h.flushes = base.flushes /\ h.assertData = base.assertData

HasStack(tr) == \E i \in 1..Len(tr) : tr[i].ev = "write" /\ Has(tr[i].s, StackText[1])
HasArgsLine(tr) == \E i \in 1..Len(tr) : tr[i].ev = "write" /\ Has(tr[i].s, "ARGS: ")

C15_OptionsFoldLastWriteWins ==
    /\ FoldIsLastWriteWins
    /\ (Failing(last) /\ Live(last) /\ last.pkg) =>
          LET c == LastWriteWins(ConfigOf(InitDefault), last.opts)
          IN  /\ \A i \in 1..Len(trace) :
                    trace[i].ev = "write" => trace[i].w = c.writer
              /\ HasStack(trace) <=> (c.debugMode \/ c.verboseMode)
              /\ HasArgsLine(trace) <=> c.verboseMode
              /\ ExitsOf(trace) =
                    IF c.deferMode THEN <<>> ELSE <<ExitEv(c.exitFunc, 1)>>

C15_Witness ==
    /\ Failing(last) /\ Live(last) /\ last.pkg
    /\ last.opts = <<Opt("WithQuietMode", ""), Opt("WithDebugMode", "")>>
    /\ HasStack(trace)

(***************************************************************************)
(* C16.  A failing evaluation on a live context renders a stack trace iff  *)
(* debug or verbose mode is on, and writes the ARGS line iff verbose mode  *)
(* is on; the ARGS line, when written, is the first write, before the      *)
(* ASSERT header and the report.                                           *)
(***************************************************************************)
\* the data list runAssert received from the call
PassedArgs(c) ==
    IF c.op = "NoError" THEN c.ins.args \o Pair("error", c.ins.x) ELSE c.ins.args

C16_StackAndArgsGating ==
    (Failing(last) /\ Live(last) /\ ~last.pkg) =>
        LET w == WritesOf(trace)
            n == Len(w)
        IN  /\ HasStack(trace) <=> (handler.debugMode \/ handler.verboseMode)
            /\ HasArgsLine(trace) <=> handler.verboseMode
            /\ n = IF handler.verboseMode THEN 3 ELSE 2
            /\ handler.verboseMode => w[1].s = ArgsLine(PassedArgs(last))
            /\ w[n - 1].s = Println(<<"ASSERT">>)
            /\ HasRun(w[n].s, last.msg)
            /\ Has(w[n].s, StackText[1]) <=>
                   (handler.debugMode \/ handler.verboseMode)

C16_Witness ==
    /\ Failing(last) /\ Live(last) /\ ~last.pkg
    /\ handler.verboseMode /\ ~handler.debugMode
    /\ handler.formatter = "yaml"
    /\ last.ins.args = Pair("k", <<"v">>)
    /\ HasStack(trace) /\ HasArgsLine(trace)

(***************************************************************************)
(* C17.  Nothing accumulates through the package-level functions: the      *)
(* default handler's queue stays empty, the handler any call would run on  *)
(* starts with an empty queue, and a package-level                         *)
(* ProcessDeferredAssertions, with or without options, writes nothing and  *)
(* does not call the termination action.                                   *)
(***************************************************************************)
C17_PackageDrainFindsNothing ==
    /\ initOnce => defaultHandler.deferredErrors = <<>>
    /\ \A os \in OptLists : Resolved(os).deferredErrors = <<>>
    /\ (last.op = "ProcessDeferredAssertions" /\ last.pkg) =>
          (trace = <<>> /\ ~exited /\ ~last.raised)

C17_Witness ==
    /\ last.op = "ProcessDeferredAssertions" /\ last.pkg
    /\ last.opts = <<Opt("WithDeferMode", "true")>>
    /\ initOnce /\ trace = <<>>

(***************************************************************************)
(* C18.  As stated: in every handler of the repository Nil runs the        *)
(* failure pipeline iff the item is not nil and NotNil iff it is nil.  The *)
(* Nil of the earlier handler runs it whatever the item is.                *)
(***************************************************************************)
C18_Original ==
    (last.op \in {"Nil", "NotNil"} /\ ~last.pkg) =>
        (WritesOf(trace) # <<>> <=> ~last.ok)

(***************************************************************************)
(* Reading a record off its rendering: the report shows key k with value v *)
(* (as the text, the JSON or the YAML formatter writes an entry).          *)
(***************************************************************************)
Carries(s, k, v) ==
    \/ HasRun(s, <<"   ", k, "=">> \o v \o <<"\n">>)
    \/ HasRun(s, <<"\"", k, "\"", ": ", "\"">> \o v \o <<"\"">>)
    \/ HasRun(s, <<"  ", k, ": ">> \o v \o <<"\n">>)

ReportCarries(tr, k, v) ==
    \E i \in 1..Len(tr) : tr[i].ev = "write" /\ Carries(tr[i].s, k, v)

\* the call reached runAssert: it wrote a notice or a report
RanPipeline(tr) == WritesOf(tr) # <<>>

(***************************************************************************)
(* C19.  As stated: NoError runs the pipeline iff err is non-nil, and the  *)
(* record then has the key "error" with err as its value whatever data the *)
(* caller gave.  With a data list of odd length the appended "error" is    *)
(* taken as the value of the caller's last key and err is dropped.         *)
(***************************************************************************)
C19_Original ==
    (last.op = "NoError" /\ ~last.pkg) =>
        /\ RanPipeline(trace) <=> last.ins.x # NilErr
        /\ (last.ins.x # NilErr /\ Live(last)) =>
               ReportCarries(trace, "error", last.ins.x)

(***************************************************************************)
(* C20.  Each package-level predicate reaches the pipeline iff its         *)
(* predicate is false, and the report of a failure on a live context shows *)
(* the message and the compared values under their keys.                   *)
(***************************************************************************)
Predicates ==
    {"Equal", "NotEqual", "Contains", "NotContains", "True", "False", "NotEmpty"}

\* whether the predicate of the call holds, from its operands
Holds(c) ==
    CASE c.op = "Equal"       -> c.ins.x = c.ins.y
      [] c.op = "NotEqual"    -> c.ins.x # c.ins.y
      [] c.op = "Contains"    -> HasRun(c.ins.x, c.ins.y)
      [] c.op = "NotContains" -> ~HasRun(c.ins.x, c.ins.y)
      [] c.op = "True"        -> c.ins.x
      [] c.op = "False"       -> ~c.ins.x
      [] c.op = "NotEmpty"    -> c.ins.x # <<>>

\* the keys under which the call reports its operands, and the values
Compared(c) ==
    CASE c.op = "Equal"       -> Pair("expected", c.ins.x) \o Pair("actual", c.ins.y)
      [] c.op = "NotEqual"    -> Pair("expected_not", c.ins.x) \o Pair("actual", c.ins.y)
      [] c.op \in {"Contains", "NotContains"} ->
                                 Pair("string", c.ins.x) \o Pair("substring", c.ins.y)
      [] c.op \in {"True", "False"} -> Pair("value", BoolStr(c.ins.x))
      [] c.op = "NotEmpty"    -> Pair("value", c.ins.x)

C20_PredicatesFailWithOperands ==
    (last.op \in Predicates /\ last.pkg) =>
        /\ RanPipeline(trace) <=> ~Holds(last)
        /\ (~Holds(last) /\ Live(last)) =>
              /\ ReportCarries(trace, "msg", last.msg)
              /\ \A i \in 1..Len(Compared(last)) :
                    i % 2 = 1 =>
                        ReportCarries(trace, Key(Compared(last)[i]),
                                      Compared(last)[i + 1])

C20_Witness ==
    /\ last.op = "NotEqual" /\ last.pkg /\ Live(last)
    /\ last.ins.x = <<"42">> /\ last.ins.y = <<"42">>
    /\ last.opts = <<Opt("WithProductionDefaults", "")>>
    /\ ReportCarries(trace, "expected_not", <<"42">>)
    /\ ReportCarries(trace, "actual", <<"42">>)

(***************************************************************************)
(* C21.  As stated: an evaluation on a handler raises only if the          *)
(* termination action itself raises, whatever data list it is given.  A    *)
(* data list whose key position holds a value that is not a string makes   *)
(* the type assertion of runAssert panic.                                  *)
(***************************************************************************)
C21_Original ==
    (IsEval(last) /\ ~last.pkg /\ last.raised) => handler.exitFunc = "panic"

(***************************************************************************)
(* C22.  Under every interleaving of goroutines making their first         *)
(* package-level calls, the default handler is constructed once only (no   *)
(* construction overwrites an existing handler), every caller is given     *)
(* that one handler, and the handler a caller is given already has the     *)
(* no-op termination action and standard error as its output: no call      *)
(* ends the process.                                                       *)
(***************************************************************************)
C22_DefaultHandlerBuiltOnce ==
    [][ /\ \A t \in Threads :
             (threads[t].pc = "OnceNew" /\ threads'[t].pc = "OnceSetExit") =>
                 defaultHandler = NilHandler
        /\ \A t \in Threads :
             threads'[t].pc = "Eval" =>
                 /\ threads'[t].out = defaultHandler'
                 /\ threads'[t].out = InitDefault
        /\ ~exited' ]_vars

\* both goroutines called before the handler existed, one waited for the
\* other, and both now hold the handler
C22_Witness ==
    /\ last.op = "NewAssertHandler"
    /\ \A t \in Threads : threads[t].pc = "Eval" /\ threads[t].out = InitDefault

(***************************************************************************)
(* C23.  As stated: with the Text formatter and debug and verbose modes    *)
(* off, all that a failing evaluation writes is one ASSERT line and one    *)
(* "   key=value" line per entry of the record.  runAssert prints the      *)
(* header itself and then prints the formatter's text, which begins with   *)
(* the header again and ends with a newline of its own.                    *)
(***************************************************************************)
\* everything the call wrote, in order
OutputOf(tr) == Concat([i \in 1..Len(WritesOf(tr)) |-> WritesOf(tr)[i].s])

\* the header and the lines of `data`, its keys visited in the order `ord`
CleanOutput(data, ord) ==
    <<"ASSERT", "\n">>
    \o Concat([i \in 1..Len(ord) |->
                 <<"   ", ord[i], "=">> \o data[ord[i]] \o <<"\n">>])

C23_Original ==
    ( /\ Failing(last) /\ Live(last) /\ ~last.pkg /\ ~last.raised
      /\ handler.formatter = "text"
      /\ ~handler.debugMode /\ ~handler.verboseMode ) =>
        LET data == BuildData(handler, last.msg, PassedArgs(last))
        IN  \E ord \in Orders(DOMAIN data) :
                OutputOf(trace) = CleanOutput(data, ord)

(***************************************************************************)
(* The record as the report shows it.                                      *)
(***************************************************************************)
\* the complete pairs of an argument list, and their keys
ArgPairs(args) == Len(args) \div 2

ArgKeys(args) == {Key(args[2 * i - 1]) : i \in 1..ArgPairs(args)}

\* the value of the last pair keyed k
LastValue(args, k) ==
    LET i == CHOOSE i \in 1..ArgPairs(args) :
                 /\ Key(args[2 * i - 1]) = k
                 /\ \A j \in (i + 1)..ArgPairs(args) : Key(args[2 * j - 1]) # k
    IN  args[2 * i]

\* how many times the run of tokens t occurs in s
CountRun(s, t) ==
    Cardinality({i \in 0..(Len(s) - Len(t)) : \A j \in 1..Len(t) : s[i + j] = t[j]})

\* the lines of the Text report keyed k, and all its entry lines
LinesOf(tr, k) == CountRun(OutputOf(tr), <<"   ", k, "=">>)

EntryLines(tr) == CountRun(OutputOf(tr), <<"   ">>)

\* a failing evaluation whose record reached the formatter
Recorded(c) == Failing(c) /\ Live(c) /\ ~c.pkg /\ ~c.raised

(***************************************************************************)
(* C24.  As stated: the record always has msg with the message of the call *)
(* and area with "Assert", whatever the caller's pairs and the registry    *)
(* hold.  A pair or a registry entry keyed msg or area replaces the value. *)
(***************************************************************************)
C24_Original ==
    Recorded(last) =>
        /\ ReportCarries(trace, "msg", last.msg)
        /\ ReportCarries(trace, "area", <<"Assert">>)

(***************************************************************************)
(* C24, amended.  The record always has exactly one entry keyed msg and    *)
(* one keyed area.  Its value is the message of the call, respectively     *)
(* "Assert", unless the caller passed a pair with that key or the registry *)
(* holds an entry with that key: then it is the value of the caller's last *)
(* such pair, or the registry entry's if there is one.                     *)
(***************************************************************************)
BaseValue(c, k) == IF k = "msg" THEN c.msg ELSE <<"Assert">>

C24_MsgAndAreaAlwaysPresent ==
    Recorded(last) =>
        \A k \in {"msg", "area"} :
            /\ LinesOf(trace, k) = 1
            /\ ReportCarries(trace, k,
                   IF k \in DOMAIN handler.assertData THEN handler.assertData[k]
                   ELSE IF k \in ArgKeys(last.ins.args)
                        THEN LastValue(last.ins.args, k)
                        ELSE BaseValue(last, k))

\* the caller passed a pair keyed area, the registry holds an entry keyed msg
C24_Witness ==
    /\ Recorded(last)
    /\ last.ins.args = Pair("area", <<"x">>)
    /\ "msg" \in DOMAIN handler.assertData
    /\ ReportCarries(trace, "area", <<"x">>)
    /\ ReportCarries(trace, "msg", handler.assertData["msg"])
    /\ ~ReportCarries(trace, "msg", last.msg)

(***************************************************************************)
(* C25.  For an argument list with string keys, the record has the pairs   *)
(* (args[2i], args[2i+1]), a later pair replacing an earlier one with the  *)
(* same key, and nothing for an unpaired last argument; the report is      *)
(* written and the failure is queued or the termination action called, for *)
(* lists of odd length too.  (A registry entry with the same key replaces  *)
(* the pair: C26.)                                                         *)
(***************************************************************************)
C25_ArgsArePairedFromTheFront ==
    (Failing(last) /\ Live(last) /\ ~last.pkg /\ ~ArgsPanic(last.ins.args)) =>
        LET args == last.ins.args
        IN  /\ ~last.raised
            /\ \A k \in ArgKeys(args) \ DOMAIN handler.assertData :
                  /\ LinesOf(trace, k) = 1
                  /\ ReportCarries(trace, k, LastValue(args, k))
            /\ EntryLines(trace) =
                  Cardinality({"msg", "area"} \cup ArgKeys(args)
                              \cup DOMAIN handler.assertData)
            /\ Len(WritesOf(trace)) = 2
            /\ IF handler.deferAssertions
               THEN /\ Len(handler.deferredErrors) = 1
                    /\ ExitsOf(trace) = <<>>
               ELSE Len(ExitsOf(trace)) = 1

\* a list of five: two pairs with the same key and an unpaired argument
C25_Witness ==
    /\ Recorded(last)
    /\ last.ins.args = Pair("k", <<"v">>) \o Pair("k", <<"w">>) \o << <<"r">> >>
    /\ handler.assertData = EmptyMap
    /\ ReportCarries(trace, "k", <<"w">>)
    /\ ~ReportCarries(trace, "k", <<"v">>)
    /\ LinesOf(trace, "r") = 0
    /\ EntryLines(trace) = 3
    /\ Len(handler.deferredErrors) = 1

(***************************************************************************)
(* C26.  After any sequence of AddAssertData and RemoveAssertData calls,   *)
(* and of changes to what the registered entries dump, the record of a     *)
(* failing evaluation has exactly one entry per key now in the registry,   *)
(* with what that entry dumps now as its value, also where the caller      *)
(* passed a pair with the same key; a key removed from the registry        *)
(* appears only if the caller passed it or it is msg or area.              *)
(***************************************************************************)
C26_RegistryIsReadAtEachFailure ==
    Recorded(last) =>
        /\ \A k \in DOMAIN handler.assertData :
              /\ LinesOf(trace, k) = 1
              /\ ReportCarries(trace, k, handler.assertData[k])
        /\ \A k \in RegistryKeys \ DOMAIN handler.assertData :
              LinesOf(trace, k) =
                  IF k \in ArgKeys(last.ins.args) \cup {"msg", "area"}
                  THEN 1 ELSE 0
        /\ EntryLines(trace) =
              Cardinality({"msg", "area"} \cup ArgKeys(last.ins.args)
                          \cup DOMAIN handler.assertData)

\* the registry holds k and not r; the caller passed a pair keyed k
C26_Witness ==
    /\ Recorded(last)
    /\ DOMAIN handler.assertData = {"k"}
    /\ handler.assertData["k"] = <<"d2">>
    /\ last.ins.args = Pair("k", <<"v">>)
    /\ ReportCarries(trace, "k", <<"d2">>)
    /\ ~ReportCarries(trace, "k", <<"v">>)
    /\ LinesOf(trace, "r") = 0

(***************************************************************************)
(* C28.  As stated: the registered flush hooks are invoked at every        *)
(* evaluation on the handler, of a true condition as of a false one.  The  *)
(* hooks are called from runAssert, which a satisfied check never enters.  *)
(***************************************************************************)
\* the hooks the call invoked, in the order of their invocation
HookNames(tr) == [i \in 1..Len(FlushesOf(tr)) |-> FlushesOf(tr)[i].w]

HooksBefore(tr, j) == Len(FlushesOf(SubSeq(tr, 1, j - 1)))

C27_HooksRunInOrderBeforeOutput ==
    \A t \in Threads :
        (threads[t].pc \in {"Write", "Unlock"} /\ threads[t].ctxErr = "") =>
            /\ handler.flushLock
            /\ \A j \in 1..Len(trace) : trace[j].by = t
            /\ HookNames(trace) = SubSeq(handler.flushes, 1, Len(HookNames(trace)))
            /\ \A j \in 1..Len(trace) :
                  trace[j].ev = "write" =>
                      HooksBefore(trace, j) = Len(handler.flushes)
            /\ (threads[t].pc = "Unlock" \/ threads[t].todo = <<>>) =>
                  HookNames(trace) = handler.flushes

\* two hooks and verbose mode: flush, flush, ARGS, header, report
C27_Witness ==
    /\ threads["g1"].pc = "Unlock" /\ threads["g1"].ctxErr = ""
    /\ handler.flushes = <<"f1", "reenter">>
    /\ handler.verboseMode
    /\ Len(trace) >= 5
    /\ [i \in 1..5 |-> trace[i].kind] =
           <<"flush", "flush", "args", "header", "report">>
    /\ HookNames(trace) = <<"f1", "reenter">>

(***************************************************************************)
(* C29.  As stated: a failing evaluation made on the same handler from     *)
(* inside one of its flush hooks does not block for ever, and the outer    *)
(* evaluation completes and releases the lock.  The inner runAssert waits  *)
(* at Lock for a mutex its own goroutine holds.                            *)
(***************************************************************************)
C29_Original ==
    [](handler.flushLock => <>(~handler.flushLock \/ exited))

(***************************************************************************)
(* C30.  The lock is released whenever the failure pipeline is left while  *)
(* the process lives on, also when the termination action raises: the      *)
(* raise comes after the report has been written and is the last thing the *)
(* call does, the lock is free afterwards, and a failing evaluation that   *)
(* follows a raise takes the lock and writes its own report.               *)
(***************************************************************************)
C30_LockReleasedOnEveryExit ==
    [][ /\ ~exited' => ~handler'.flushLock
        /\ (IsEval(last') /\ last'.raised) =>
              /\ handler.exitFunc = "panic"
              /\ Reported(trace', last'.msg)
              /\ trace'[Len(trace')] = ExitEv("panic", 1)
        /\ (last.raised /\ Failing(last') /\ Live(last')) =>
              /\ ~handler.flushLock
              /\ Reported(trace', last'.msg)
              /\ ~handler'.flushLock ]_vars

\* the termination action has raised: report written, lock free
C30_Witness ==
    /\ Failing(last) /\ Live(last) /\ last.raised
    /\ handler.exitFunc = "panic"
    /\ Reported(trace, last.msg)
    /\ trace[Len(trace)] = ExitEv("panic", 1)
    /\ ~handler.flushLock /\ ~exited

(***************************************************************************)
(* C31.  As stated: with failing deferred evaluations and drains running   *)
(* at the same time on one handler, every queued entry is written in       *)
(* exactly one combined report.  No append separates two drain writes of   *)
(* the trace (an append starts with a Lock, which starts the trace anew),  *)
(* so two of them with the same text report the same entries twice.        *)
(***************************************************************************)
DrainWrites == SelectSeq(trace, LAMBDA e : e.kind = "drain")

C31_Original ==
    \A i, j \in 1..Len(DrainWrites) :
        i < j => DrainWrites[i].s # DrainWrites[j].s

(***************************************************************************)
(* C32.  A drain that calls the termination action has written the         *)
(* combined report before it and has emptied the queue before it: the      *)
(* queue is empty also when the termination action raises, and a drain     *)
(* made from the termination action or after it finds nothing to report.   *)
(***************************************************************************)
C32_DrainClearsBeforeExit ==
    [][ (last'.op = "ProcessDeferredAssertions" /\ ~last'.pkg
         /\ ExitsOf(trace') # <<>>) =>
            /\ Len(trace') = 2
            /\ trace'[1].ev = "write" /\ trace'[2].ev = "exit"
            /\ handler'.deferredErrors = <<>>
            /\ ProcessDeferred(handler').tr = <<>> ]_vars

\* a drain whose termination action raised: report written, queue empty
C32_Witness ==
    /\ last.op = "ProcessDeferredAssertions" /\ ~last.pkg /\ last.raised
    /\ Len(trace) = 2 /\ trace[1].ev = "write" /\ trace[2] = ExitEv("panic", 1)
    /\ handler.deferredErrors = <<>>

(***************************************************************************)
(* C33.  The deferred queue changes in two ways only: a failing evaluation *)
(* on a live context, made while defer mode is on, appends one entry; a    *)
(* drain empties it, after writing every entry it held whether defer mode  *)
(* is still on or not.  Every other call leaves the queue as it was.       *)
(***************************************************************************)
C33_QueueChangesOnlyByAppendOrDrain ==
    [][ LET q  == handler.deferredErrors
            q2 == handler'.deferredErrors
        IN  /\ q2 # q =>
                  \/ /\ Failing(last') /\ Live(last') /\ handler.deferAssertions
                     /\ Len(q2) = Len(q) + 1
                     /\ SubSeq(q2, 1, Len(q)) = q
                  \/ /\ last'.op = "ProcessDeferredAssertions"
                     /\ q2 = <<>>
                     /\ trace'[1] = WriteEv(handler.writer,
                                            Println(Join(q, Sep)))
            /\ (last'.op = "set" \/ (IsEval(last') /\ last'.ok)
                \/ (IsEval(last') /\ ~Live(last'))
                \/ (IsEval(last') /\ ~handler.deferAssertions)) => q2 = q ]_vars

\* entries queued in defer mode, defer mode switched off, then the drain
C33_Witness ==
    /\ last.op = "ProcessDeferredAssertions" /\ ~last.pkg
    /\ ~handler.deferAssertions
    /\ Len(trace) = 2 /\ trace[1].ev = "write"
    /\ Has(trace[1].s, "ASSERT") /\ Has(trace[1].s, Sep)
    /\ handler.deferredErrors = <<>>

(***************************************************************************)
(* C34.  A package-level call made with options leaves the default handler *)
(* as the call found it (as the first use builds it, if this call is the   *)
(* first): formatter, output, termination action, defer, debug and verbose *)
(* modes and the deferred queue are unchanged, whatever the options and    *)
(* whatever the outcome of the call.                                       *)
(***************************************************************************)
SharedFields(h) ==
    << h.formatter, h.writer, h.exitFunc, h.deferAssertions, h.debugMode,
       h.verboseMode, h.deferredErrors >>

C34_OptionsLeaveDefaultHandlerAlone ==
    [][ (last'.pkg /\ last'.nopts > 0) =>
            IF defaultHandler' = NilHandler
            THEN defaultHandler = NilHandler
            ELSE SharedFields(defaultHandler') =
                     SharedFields(getDefaultHandler(defaultHandler, initOnce)) ]_vars

\* a failing call made in defer mode by option: it queued on its own handler
C34_Witness ==
    /\ last.pkg /\ Failing(last) /\ Live(last)
    /\ last.opts = <<Opt("WithDeferMode", "true")>>
    /\ HasReport(trace) /\ ExitsOf(trace) = <<>>
    /\ ~defaultHandler.deferAssertions
    /\ defaultHandler.deferredErrors = <<>>

(***************************************************************************)
(* C35.  As stated: two failing package-level calls that write to the same *)
(* output are serialized by a common lock, with or without options, so the *)
(* report of one always follows its own header directly.  A call with      *)
(* options locks the mutex of its own temporary handler.                   *)
(***************************************************************************)
C35_Original ==
    \A j \in 1..Len(EvalWrites) :
        EvalWrites[j].kind = "report" =>
            /\ j > 1
            /\ EvalWrites[j - 1].kind = "header"
            /\ EvalWrites[j - 1].by = EvalWrites[j].by

(***************************************************************************)
(* C36.  runAssert reads the context once, right after Lock.  A failing    *)
(* evaluation that found it live keeps what it rendered and what it has    *)
(* still to write whatever happens to the context afterwards: each of its  *)
(* steps is the next write, and after the last write the append of its     *)
(* report to the queue or the call of the termination action.              *)
(***************************************************************************)
\* goroutine t is past the context check, which found the context live
PastCheck(t) == threads[t].pc = "Write" /\ threads[t].out # <<>>

C36_LateCancellationCannotAbort ==
    [][ \A t \in Threads :
          PastCheck(t) =>
            LET f == threads[t]
                g == threads'[t]
            IN  \/ g = f
                \/ g = [f EXCEPT !.ctxErr = "context canceled"]
                \/ /\ f.todo # <<>>
                   /\ g = [f EXCEPT !.todo = Tail(f.todo)]
                   /\ trace' = Append(trace, Tagged(Head(f.todo), t,
                                                    KindOf(Head(f.todo))))
                \/ /\ f.todo = <<>>
                   /\ g = [f EXCEPT !.pc = "Unlock"]
                   /\ IF handler.deferAssertions
                      THEN handler'.deferredErrors =
                               Append(handler.deferredErrors, f.out)
                      ELSE trace' = Append(trace,
                               Tagged(ExitEv(handler.exitFunc, 1), t, "exit")) ]_vars

\* the context was cancelled after the check: the report was written all the
\* same and the termination action called
C36_Witness ==
    LET f == threads["g1"]
    IN  /\ f.pc = "Unlock" /\ f.ctxErr = "context canceled" /\ f.out # <<>>
        /\ \E i \in 1..Len(trace) : trace[i].kind = "report" /\ trace[i].by = "g1"
        /\ trace[Len(trace)].kind = "exit"

(***************************************************************************)
(* C37.  As stated: with a parent context that is not cancelled,           *)
(* AssertWithTimeout writes, queues and terminates as Assert does with the *)
(* same condition, message and data, whatever the timeout.  With a timeout *)
(* of zero or less the derived context has expired before runAssert reads  *)
(* it.                                                                     *)
(***************************************************************************)
\* timeouts longer than, equal to and shorter than the time that passes, among
\* them timeouts of zero and less
Timeouts == Timing \cup {<<0, 1>>, <<-1, 0>>}

\* AssertWithTimeout over the wider range of timeouts, on a handler whose
\* modes, termination action and queue change between the calls
TimeoutNext ==
    \/ \E b \in BOOLEAN : SetDeferAssertions(b)
    \/ \E f \in ExitFuncs : SetExitFunc(f)
    \/ \E c \in CtxErrs, d \in Timeouts, t \in BOOLEAN, m \in Msgs :
          \E o \in KeyOrder(handler, <<>>) :
              DoAssertWithTimeout(c, d[1], d[2], t, m, <<>>, o)
    \/ ProcessDeferredAssertions

SpecTimeout == Init /\ [][TimeoutNext]_vars

\* what Assert does on handler a with the inputs of call c and context error e
AsAssert(a, c, e) ==
    HAssert(a, e, c.ok, c.msg, c.ins.args, Sorted(DataKeys(a, c.ins.args)))

\* the call was AssertWithTimeout on a parent context that is not cancelled
TimedCall(c) ==
    c.op = "AssertWithTimeout" /\ ~c.pkg /\ c.ctxErr # "context canceled"

C37_Original ==
    [][ TimedCall(last') =>
            /\ trace' = AsAssert(handler, last', "").tr
            /\ handler' = AsAssert(handler, last', "").a
            /\ exited' = AsAssert(handler, last', "").exited ]_vars

(***************************************************************************)
(* C37, amended.  With a parent context that is not cancelled,             *)
(* AssertWithTimeout does what Assert does on a live context if the        *)
(* timeout is longer than the time that passes before runAssert reads the  *)
(* context, and what Assert does on a cancelled context (for a false       *)
(* condition the notice "context deadline exceeded", no report, no queue   *)
(* entry, no termination) if it is not: in particular for every timeout of *)
(* zero or less.                                                           *)
(***************************************************************************)
C37_TimeoutIsACancellation ==
    [][ TimedCall(last') =>
            LET timeout == last'.ins.x
                elapsed == last'.ins.y
                r == AsAssert(handler, last',
                              IF timeout > elapsed THEN ""
                              ELSE "context deadline exceeded")
            IN  /\ trace' = r.tr
                /\ handler' = r.a
                /\ exited' = r.exited ]_vars

\* a false condition with a negative timeout: the notice and nothing else
C37_Witness ==
    /\ last.op = "AssertWithTimeout" /\ ~last.pkg /\ ~last.ok
    /\ last.ctxErr = "context deadline exceeded"
    /\ last.ins.x < 0
    /\ trace = <<WriteEv(handler.writer,
                         CancelNotice("context deadline exceeded"))>>

(***************************************************************************)
(* The presets and the modifiers without a parameter of their own, applied *)
(* after other options: the option list of a package-level call is a list  *)
(* that builds a base configuration, followed by the modifier.             *)
(***************************************************************************)
Presets ==
    { Opt("WithProductionDefaults", ""), Opt("WithTestingDefaults", ""),
      Opt("WithSilentMode", ""), Opt("WithLogLevel", "info") }

\* option lists that build the base configurations: none, every single
\* option, and one that sets every field
BaseLists ==
    {<<>>} \cup {<<o>> : o \in AllOptions}
    \cup { << Opt("WithFormatter", "yaml"), Opt("WithWriter", "buffer"),
              Opt("WithExitFunc", "panic"), Opt("WithDeferMode", "true"),
              Opt("WithDebugMode", ""), Opt("WithVerboseMode", "") >> }

PresetLists == {Append(p, o) : p \in BaseLists, o \in Presets}

OptionsNext ==
    \/ \E c \in CtxErrs, t \in BOOLEAN, m \in Msgs, os \in PresetLists :
          \E o \in KeyOrder(Resolved(os), <<>>) : PkgAssert(c, t, m, os, o)
    \/ \E c \in CtxErrs, m \in Msgs, os \in PresetLists :
          \E o \in KeyOrder(Resolved(os), <<>>) : PkgNever(c, m, os, o)

SpecOptions == Init /\ [][OptionsNext]_vars

\* the configuration a modifier is documented to leave, given the one it is
\* handed
PresetEffect(c, o) ==
    CASE o.name = "WithProductionDefaults" ->
            [ formatter |-> "json", writer |-> c.writer, exitFunc |-> "noop",
              deferMode |-> c.deferMode, debugMode |-> FALSE,
              verboseMode |-> FALSE ]
      [] o.name = "WithTestingDefaults" ->
            [ formatter |-> "text", writer |-> c.writer, exitFunc |-> "noop",
              deferMode |-> c.deferMode, debugMode |-> TRUE,
              verboseMode |-> c.verboseMode ]
      [] o.name = "WithSilentMode" ->
            [ formatter |-> c.formatter, writer |-> "discard",
              exitFunc |-> c.exitFunc, deferMode |-> c.deferMode,
              debugMode |-> c.debugMode, verboseMode |-> c.verboseMode ]
      [] o.name = "WithLogLevel" -> c

\* the formatter a report was rendered by, told from how the report starts
FormatOf(e) ==
    IF e.s[1] = "{" THEN "json"
    ELSE IF e.s[1] = "assertData" THEN "yaml"
    ELSE "text"

\* the call was made with a list of options that ends in one of the presets
WithPreset(c) ==
    IsEval(c) /\ c.pkg /\ c.nopts > 0 /\ c.opts[c.nopts] \in Presets

(***************************************************************************)
(* C38.  WithProductionDefaults, WithTestingDefaults, WithSilentMode and   *)
(* WithLogLevel change the fields they name and no other, whatever the     *)
(* configuration the options before them have built: the handler the call  *)
(* runs on has the documented configuration, and a failing call on a live  *)
(* context shows it (its sink, its format, whether a stack trace and an    *)
(* ARGS line are written, and the termination action that is called).      *)
(***************************************************************************)
C38_PresetsChangeOnlyTheirFields ==
    WithPreset(last) =>
        LET n    == last.nopts
            base == FoldOptions(ConfigOf(InitDefault), SubSeq(last.opts, 1, n - 1))
            want == PresetEffect(base, last.opts[n])
            got  == ConfigOf(applyOptions(defaultHandler, initOnce, last.opts))
        IN  /\ got = want
            /\ (Failing(last) /\ Live(last)) =>
                  /\ \A i \in 1..Len(trace) :
                        /\ trace[i].ev = "write" => trace[i].w = want.writer
                        /\ IsReportOf(trace[i], last.msg) /\ trace[i].s # <<"ASSERT">>
                               => FormatOf(trace[i]) = want.formatter
                  /\ Reported(trace, last.msg)
                  /\ HasStack(trace) <=> (want.debugMode \/ want.verboseMode)
                  /\ HasArgsLine(trace) <=> want.verboseMode
                  /\ ExitsOf(trace) =
                        IF want.deferMode THEN <<>> ELSE <<ExitEv(want.exitFunc, 1)>>

\* WithTestingDefaults after an option list that set every field: the sink,
\* the deferred mode and the verbose mode of the list are kept
C38_Witness ==
    /\ WithPreset(last) /\ Failing(last) /\ Live(last)
    /\ last.nopts = 7 /\ last.opts[7] = Opt("WithTestingDefaults", "")
    /\ HasArgsLine(trace) /\ ExitsOf(trace) = <<>>
    /\ \E i \in 1..Len(trace) :
          /\ IsReportOf(trace[i], last.msg) /\ trace[i].w = "buffer"
          /\ FormatOf(trace[i]) = "text"

(***************************************************************************)
(* Two handlers made by separate calls of NewAssertHandler: "h1" is the    *)
(* explicit handler, "h2" the second one.  Each call of the constructor    *)
(* makes a slice of hooks, a map, a queue and a struct with a mutex of its *)
(* own; what a call on one handler stores is seen through the other only   *)
(* in the parts the two would share.                                       *)
(***************************************************************************)
HandlerNames == {"h1", "h2"}

\* a variant whose handlers all use one package-level registry
SharedParts_PackageRegistry == {"assertData"}

\* the fields of a handler that NewAssertHandler does not make anew: none
SharedParts == {}

\* handler o after a call left another handler as n
Seen(o, n) == [f \in DOMAIN o |-> IF f \in SharedParts THEN n[f] ELSE o[f]]

The(w) == IF w = "h1" THEN handler ELSE second

\* the handlers that have been made
Made == IF second = NilHandler THEN {"h1"} ELSE HandlerNames

\* second := NewAssertHandler()
NewSecond ==
    /\ ~exited
    /\ second = NilHandler
    /\ second' = NewAssertHandler
    /\ trace' = <<>>
    /\ last' = [Called("NewAssertHandler", FALSE, 0, TRUE, "", <<>>, FALSE)
                    EXCEPT !.by = "h2"]
    /\ UNCHANGED <<handler, defaultHandler, initOnce, pending, exited, threads>>

\* a call on handler w with result r
TwoCall(w, op, ok, msg, r) ==
    /\ ~exited
    /\ Len(r.a.deferredErrors) <= MaxSharedQueue
    /\ handler' = IF w = "h1" THEN r.a ELSE Seen(handler, r.a)
    /\ second' = IF w = "h2" THEN r.a
                 ELSE IF second = NilHandler THEN second
                 ELSE Seen(second, r.a)
    /\ trace' = r.tr
    /\ exited' = r.exited
    /\ last' = [Called(op, FALSE, 0, ok, "", msg, r.raised) EXCEPT !.by = w]
    /\ UNCHANGED <<defaultHandler, initOnce, pending, threads>>

TwoSet(w, a) == TwoCall(w, "set", TRUE, <<>>, NoEffect(a))

TwoAddAssertData(w, key, value) ==
    /\ key \notin DOMAIN The(w).assertData
    /\ TwoSet(w, [The(w) EXCEPT !.assertData =
                    [k \in DOMAIN @ \cup {key} |-> IF k = key THEN value ELSE @[k]]])

TwoAddAssertFlush(w, flusher) ==
    /\ Len(The(w).flushes) < MaxFlushes
    /\ TwoSet(w, [The(w) EXCEPT !.flushes = Append(@, flusher)])

TwoSetDeferAssertions(w, deferMode) ==
    TwoSet(w, [The(w) EXCEPT !.deferAssertions = deferMode])

TwoSetExitFunc(w, exitFunc) == TwoSet(w, [The(w) EXCEPT !.exitFunc = exitFunc])

TwoAssert(w, truth, msg) ==
    TwoCall(w, "Assert", truth, msg,
            HAssert(The(w), "", truth, msg, <<>>,
                    Sorted(DataKeys(The(w), <<>>))))

TwoProcessDeferredAssertions(w) ==
    TwoCall(w, "ProcessDeferredAssertions", TRUE, <<>>, ProcessDeferred(The(w)))

TwoNext ==
    \/ NewSecond
    \/ \E w \in Made : TwoAddAssertData(w, "k", <<"d1">>)
    \/ \E w \in Made, f \in Hooks : TwoAddAssertFlush(w, f)
    \/ \E w \in Made, b \in BOOLEAN : TwoSetDeferAssertions(w, b)
    \/ \E w \in Made : TwoSetExitFunc(w, "noop")
    \/ \E w \in Made, t \in BOOLEAN : TwoAssert(w, t, <<"A">>)
    \/ \E w \in Made : TwoProcessDeferredAssertions(w)

SpecTwo == Init /\ [][TwoNext]_vars

\* the state of a handler as the constructor is documented to leave it
FreshHandler ==
    [ flushes         |-> <<>>,
      assertData      |-> EmptyMap,
      writer          |-> "stderr",
      flushLock       |-> FALSE,
      exitFunc        |-> "os.Exit",
      formatter       |-> "text",
      deferredErrors  |-> <<>>,
      deferAssertions |-> FALSE,
      debugMode       |-> FALSE,
      verboseMode     |-> FALSE ]

\* the registry, the hooks, the queue and the lock of a handler
OwnState(h) ==
    IF h = NilHandler THEN <<>>
    ELSE <<h.assertData, h.flushes, h.deferredErrors, h.flushLock>>

(***************************************************************************)
(* C39.  A handler is returned by NewAssertHandler with standard error as  *)
(* its sink, the real process exit as its termination action, the Text     *)
(* formatter, the three modes off, an empty registry, no flush hooks and   *)
(* an empty queue, its lock free; and no call on one of two handlers made  *)
(* by separate calls changes the registry, the hooks, the queue or the     *)
(* lock of the other.                                                      *)
(***************************************************************************)
C39_FreshHandlersShareNothing ==
    /\ handler = FreshHandler
    /\ [][ /\ last'.op = "NewAssertHandler" => second' = FreshHandler
           /\ last'.by = "h1" => OwnState(second') = OwnState(second)
           /\ last'.by = "h2" => OwnState(handler') = OwnState(handler) ]_vars

\* the first handler has a registry entry, a hook and a queued report and
\* holds its lock (the process ended inside its pipeline); the second is as
\* the constructor left it
C39_Witness ==
    /\ last.by = "h1" /\ exited
    /\ handler.assertData # EmptyMap /\ handler.flushes # <<>>
    /\ handler.deferredErrors # <<>> /\ handler.flushLock
    /\ second = FreshHandler


====
